---------------------------- MODULE Spec2Model ----------------------------
(***************************************************************************)
(* Batch file tools of the agent's tool layer: readFilesTool,              *)
(* writeFilesTool, deleteItemsTool, createDirectoriesTool and              *)
(* listDirectoriesTool.  One behaviour is one invocation of one tool on a  *)
(* session object (cline) with its collaborators: the access policy        *)
(* (rooIgnoreController), the approval gate (askApproval / cline.ask),     *)
(* the reporting callbacks (pushToolResult, cline.say, handleError) and    *)
(* the filesystem.  JavaScript strings are sequences of one-character      *)
(* strings so that trim(), parseInt() and path handling are computed.      *)
(***************************************************************************)
EXTENDS Integers, Sequences, FiniteSets, TLC

VARIABLES
    tool,                    \* which tool function is running ("none" before the call)
    block,                   \* the ToolUse block: partial flag and params
    pc,                      \* position of the invocation
    relPaths,                \* filtered paths of the path-based tools
    itemsToProcess,          \* writeFilesTool: the validated {path, content} items
    validationErrors,        \* writeFilesTool: collected validation messages
    range,                   \* readFilesTool: isRangeRead, startLine, endLine
    maxReadFileLine,         \* readFilesTool: setting read from the provider state
    approvalContent,         \* payload built for the approval gate
    didApprove,              \* "pending" | "yes" | "no" ("none" before the request)
    idx,                     \* index of the next item of the execution loop
    results,                 \* per-item results collected so far
    consecutiveMistakeCount, \* cline.consecutiveMistakeCount
    didEditFile,             \* cline.didEditFile
    rooIgnore,               \* cline.rooIgnoreController (may be absent)
    fs,                      \* absolute paths that exist on disk
    log,                     \* collaborator calls made by the invocation, in order
    entry,                   \* session state at the moment of the call
    promptCall,              \* prompt builders: the function called and its inputs
    promptResult             \* prompt builders: the value the call resolved to

vars == <<tool, block, pc, relPaths, itemsToProcess, validationErrors, range, maxReadFileLine,
          approvalContent, didApprove, idx, results, consecutiveMistakeCount,
          didEditFile, rooIgnore, fs, log, entry,
          promptCall, promptResult>>

prompts == <<promptCall, promptResult>>

-----------------------------------------------------------------------------
(* Bounds *)

MaxItems == 2
PriorMistakes == 1

-----------------------------------------------------------------------------
(* JavaScript values *)

Str(s) == [t |-> "string", s |-> s]
Undefined == [t |-> "undefined", s |-> <<>>]
NotAString == [t |-> "number", s |-> <<>>]

ArrayOf(a) == [t |-> "array", s |-> <<>>, a |-> a]
NoParam == [t |-> "undefined", s |-> <<>>, a |-> <<>>]
StringParam(s) == [t |-> "string", s |-> s, a |-> <<>>]

\* an entry of params.items: an object with path and content, or null
Item(path, content) == [t |-> "object", path |-> path, content |-> content]
Null == [t |-> "null", path |-> Undefined, content |-> Undefined]

\* an optional number: a parsed line index, a setting
Defined(n) == [def |-> TRUE, n |-> n]
Undef == [def |-> FALSE, n |-> 0]

\* !v for the values a parameter can take
IsFalsy(v) == v.t \in {"undefined", "null"} \/ (v.t = "string" /\ v.s = <<>>)

RECURSIVE TrimStart(_)
TrimStart(s) == IF s # <<>> /\ Head(s) = " " THEN TrimStart(Tail(s)) ELSE s

RECURSIVE TrimEnd(_)
TrimEnd(s) ==
    IF s # <<>> /\ s[Len(s)] = " " THEN TrimEnd(SubSeq(s, 1, Len(s) - 1)) ELSE s

\* String.prototype.trim
Trim(s) == TrimEnd(TrimStart(s))

RECURSIVE SeqsUpTo(_, _)
SeqsUpTo(S, n) ==
    IF n = 0 THEN {<<>>}
    ELSE LET shorter == SeqsUpTo(S, n - 1)
         IN shorter \cup {Append(q, x) : q \in {r \in shorter : Len(r) = n - 1}, x \in S}

\* Array.prototype.filter
Filter(a, Keep(_)) == SelectSeq(a, Keep)

\* Array.prototype.map
Map(a, F(_)) == [i \in 1..Len(a) |-> F(a[i])]

Count(a, P(_)) == Cardinality({i \in 1..Len(a) : P(a[i])})

-----------------------------------------------------------------------------
(* Paths and the filesystem *)

Cwd == <<"/", "w">>
PathA == <<"a">>
PathDB == <<"d", "/", "b">>
PaddedA == <<" ", "a">>
Blank == <<" ">>
Empty == <<>>

\* path.resolve(cline.cwd, relPath) for relative paths without dot segments
Resolve(relPath) == Cwd \o <<"/">> \o relPath

RECURSIVE LastSlash(_)
LastSlash(p) ==
    IF p = <<>> THEN 0
    ELSE IF p[Len(p)] = "/" THEN Len(p) ELSE LastSlash(SubSeq(p, 1, Len(p) - 1))

\* path.dirname
Dirname(p) ==
    LET k == LastSlash(p)
    IN IF k = 0 THEN <<".">> ELSE IF k = 1 THEN <<"/">> ELSE SubSeq(p, 1, k - 1)

IsPrefix(p, q) == Len(p) <= Len(q) /\ SubSeq(q, 1, Len(p)) = p

\* p is q or lies below directory q
IsUnder(p, q) == p = q \/ IsPrefix(q \o <<"/">>, p)

\* utils/path getReadablePath: the path relative to the working directory
GetReadablePath(relPath) ==
    LET abs == Resolve(relPath)
    IN IF IsPrefix(Cwd \o <<"/">>, abs)
       THEN SubSeq(abs, Len(Cwd) + 2, Len(abs))
       ELSE abs

\* RooIgnoreController.validateAccess
ValidateAccess(controller, relPath) == relPath \notin controller.ignored

\* a fallback that denies when there is no controller
AccessAllowedFailClosed(relPath) ==
    IF rooIgnore.present THEN ValidateAccess(rooIgnore, relPath) ELSE FALSE

\* cline.rooIgnoreController?.validateAccess(relPath) ?? true
AccessAllowed(relPath) ==
    IF rooIgnore.present THEN ValidateAccess(rooIgnore, relPath) ELSE TRUE

-----------------------------------------------------------------------------
(* Errors, messages and the call log *)

NoError == [code |-> "none", message |-> ""]
FileNotFound == [code |-> "FileNotFound", message |-> "FileNotFound"]
NoPermissions == [code |-> "NoPermissions", message |-> "Permission denied"]
BareError == [code |-> "Unknown", message |-> ""]

Msg(text, arg) == [text |-> text, arg |-> arg]
NoMsg == Msg("undefined", <<>>)
IsTruthyMsg(m) == m # NoMsg /\ m.text # ""

\* error.message || "Unknown error"
MessageOr(error, fallback) ==
    IF error.message # "" THEN Msg(error.message, <<>>) ELSE Msg(fallback, <<>>)

\* formatResponse.toolError
ToolError(msg) == [kind |-> "toolError", msg |-> msg]

\* formatResponse.rooIgnoreError
RooIgnoreError(what) == Msg("rooIgnoreError", what)

\* cline.sayAndCreateMissingParamError: says the error and returns the tool result
MissingParamError(toolName, paramName, detail) ==
    [kind |-> "missingParam", msg |-> Msg(detail, <<toolName, paramName>>)]

\* one collaborator call: what was called, its arguments, what it returned or threw
Ev(ev, a, b, c) == [ev |-> ev, a |-> a, b |-> b, c |-> c]
Say(type, msg) == Ev("say", type, msg, "resolved")
SayMissingParam(toolName, paramName) ==
    Ev("sayAndCreateMissingParamError", toolName, paramName, "resolved")
Push(result) == Ev("pushToolResult", result.kind, result, "returned")
Settlements == {"resolved", "rejected"}
Ask(content, settled) == Ev("ask", "partial", content, settled)
\* await cline.ask(...).catch(() => {}): a rejected announcement is dropped
AfterAnnounceUncaught(settled) == IF settled = "rejected" THEN "threw" ELSE "announced"
AfterAnnounce(settled) == "announced"
AskApproval(content) == Ev("askApproval", "tool", content, "pending")
HandleError(action, error) == Ev("handleError", action, error, "resolved")
FsCall(op, path, result) == Ev("fs", op, path, result)
PolicyQuery(relPath, allowed) == Ev("validateAccess", "policy", relPath, allowed)

Calls(ev) == SelectSeq(log, LAMBDA e : e.ev = ev)
FsCalls(op) == SelectSeq(log, LAMBDA e : e.ev = "fs" /\ e.a = op)

Terminal == {"rejected", "announced", "abandoned", "done", "threw"}

-----------------------------------------------------------------------------
(* Inputs *)

PathEntries == {Str(PathA), Str(PathDB), Str(Blank), Str(Empty), NotAString}

PathsParams ==
    {NoParam, StringParam(PathA)} \cup {ArrayOf(a) : a \in SeqsUpTo(PathEntries, MaxItems)}

PolicyPaths == {PathA, PathDB}

\* no controller, one that ignores nothing, one that ignores a, one that
\* ignores a and d/b
Controllers ==
    {[present |-> FALSE, ignored |-> {}]}
        \cup {[present |-> TRUE, ignored |-> I] : I \in {{}, {PathA}, {PathA, PathDB}}}

NoRange == [isRangeRead |-> FALSE, startLine |-> Undef, endLine |-> Undef]

\* a ToolUse block: the partial flag and the params the tools look at
BlockOf(partial, paths, items, start, end, recursive) ==
    [partial |-> partial, paths |-> paths, items |-> items,
     start_line |-> start, end_line |-> end, recursive |-> recursive]

NoBlock == BlockOf(FALSE, NoParam, NoParam, Undefined, Undefined, Undefined)

PathBlocks ==
    {BlockOf(partial, paths, NoParam, Undefined, Undefined, Undefined) :
        partial \in BOOLEAN, paths \in PathsParams}

\* entries of the items parameter of writeFilesTool
WriteItems ==
    {Null,
     Item(Str(PathA), Str(<<>>)),
     Item(Str(PaddedA), Str(<<"x">>)),
     Item(Str(PathDB), Str(<<"x">>)),
     Item(Str(Blank), Str(<<"x">>)),
     Item(Str(PathA), NotAString),
     Item(NotAString, NotAString)}

WriteBlocks ==
    {BlockOf(partial, NoParam, items, Undefined, Undefined, Undefined) :
        partial \in BOOLEAN,
        items \in {NoParam, StringParam(PathA)}
                      \cup {ArrayOf(a) : a \in SeqsUpTo(WriteItems, MaxItems)}}

\* write requests of three entries, well formed or not at each position
TripleEntries ==
    {Item(Str(PathA), Str(<<>>)),
     Item(Str(PathDB), Str(<<"x">>)),
     Item(Str(Blank), Str(<<"x">>)),
     Item(Str(PathA), NotAString)}

TripleBlocks ==
    {BlockOf(partial, NoParam, ArrayOf(<<x, y, z>>), Undefined, Undefined, Undefined) :
        partial \in BOOLEAN, x \in TripleEntries, y \in TripleEntries, z \in TripleEntries}

\* read requests with a line range, on batches of distinct existing and missing files
StartLineParams == {Undefined, Str(<<"x">>), Str(<<"0">>), Str(<<"1">>), Str(<<"2">>)}
EndLineParams == {Undefined, Str(<<"0">>), Str(<<"1">>)}
DistinctPaths == {<<Str(PathA)>>, <<Str(PathDB)>>, <<Str(PathA), Str(PathDB)>>,
                  <<Str(PathDB), Str(PathA)>>}

ReadBlocks ==
    {BlockOf(partial, ArrayOf(paths), NoParam, start, end, Undefined) :
        partial \in BOOLEAN, paths \in DistinctPaths,
        start \in StartLineParams, end \in EndLineParams}

\* values of the maxReadFileLine setting of the provider state
Settings == {Undef, Defined(0 - 1), Defined(0), Defined(2)}

ListBlocks ==
    {BlockOf(partial, paths, NoParam, Undefined, Undefined, recursive) :
        partial \in BOOLEAN, paths \in PathsParams,
        recursive \in {Undefined, Str(<<"T", "R", "U", "E">>)}}

\* no prompt builder was called
NoCall == [fn |-> "none"]
NoResult == [fn |-> "pending"]

\* the workspace before the call: the file a exists, d and d/b do not
InitialFs == {Resolve(PathA)}

\* no tool has been invoked yet
Idle ==
    /\ tool = "none"
    /\ block = NoBlock
    /\ pc = "idle"
    /\ relPaths = <<>>
    /\ itemsToProcess = <<>>
    /\ validationErrors = <<>>
    /\ range = NoRange
    /\ maxReadFileLine = 0
    /\ approvalContent = [tool |-> "none", paths |-> <<>>, reason |-> NoMsg]
    /\ didApprove = "none"
    /\ idx = 0
    /\ results = <<>>
    /\ consecutiveMistakeCount = PriorMistakes
    /\ didEditFile = FALSE
    /\ rooIgnore \in Controllers
    /\ fs = InitialFs
    /\ log = <<>>
    /\ entry = [consecutiveMistakeCount |-> consecutiveMistakeCount,
                didEditFile |-> didEditFile]

Init ==
    /\ Idle
    /\ promptCall = NoCall
    /\ promptResult = NoResult

session == <<consecutiveMistakeCount, didEditFile>>
locals == <<relPaths, itemsToProcess, validationErrors, range, maxReadFileLine, approvalContent,
            didApprove, idx, results>>

-----------------------------------------------------------------------------
(* Steps shared by the path-based tools *)

\* a filter that keeps every string, blank or not
FilterPathsAnyString(input) == Map(Filter(input, LAMBDA p : p.t = "string"), LAMBDA p : p.s)

\* relPathsInput.filter((p) => typeof p === "string" && p.trim() !== "")
FilterPaths(input) == Map(Filter(input, LAMBDA p : p.t = "string" /\ Trim(p.s) # <<>>),
                          LAMBDA p : p.s)

\* !relPathsInput || !Array.isArray(relPathsInput) || relPathsInput.length === 0
IsMissingParam(input) == IsFalsy(input) \/ input.t # "array" \/ Len(input.a) = 0

PolicyQueries(paths) == Map(paths, LAMBDA p : PolicyQuery(p, AccessAllowed(p)))

-----------------------------------------------------------------------------
(* deleteItemsTool *)

DeleteMissingDetail == "Expected a non-empty array of file or directory paths to delete."
NoValidPathsSaid == "The 'paths' parameter array contains only invalid or empty paths."
NoValidPathsError == "Invalid 'paths' parameter: No valid paths provided."

\* the .rooignore check: readable paths of the entries the policy denies
DeleteDisallowedPaths(paths) ==
    Map(Filter(paths, LAMBDA p : ~AccessAllowed(p)), LAMBDA p : GetReadablePath(p))

DeleteApprovalContent(paths) ==
    [tool |-> "deleteItems",
     paths |-> Map(paths, LAMBDA p : [path |-> GetReadablePath(p), status |-> "none"]),
     reason |-> Msg("Will attempt to PERMANENTLY delete item(s)", <<Len(paths)>>)]

\* the invocation up to its first suspension or return
DeleteItemsStart(b) ==
    /\ pc = "idle"
    /\ tool' = "delete"
    /\ block' = b
    /\ UNCHANGED <<itemsToProcess, validationErrors, range, maxReadFileLine, idx, results,
                   didEditFile, rooIgnore, fs, entry>>
    /\ IF IsMissingParam(b.paths)
       THEN /\ consecutiveMistakeCount' = consecutiveMistakeCount + 1
            /\ log' = log \o <<SayMissingParam("delete_items", "paths"),
                               Push(MissingParamError("delete_items", "paths",
                                                      DeleteMissingDetail))>>
            /\ pc' = "rejected"
            /\ UNCHANGED <<relPaths, approvalContent, didApprove>>
       ELSE LET paths == FilterPaths(b.paths.a)
                disallowedPaths == DeleteDisallowedPaths(paths)
                content == DeleteApprovalContent(paths)
            IN /\ relPaths' = paths
               /\ IF Len(paths) = 0
                  THEN /\ consecutiveMistakeCount' = consecutiveMistakeCount + 1
                       /\ log' = log \o <<Say("error", Msg(NoValidPathsSaid, <<>>)),
                                          Push(ToolError(Msg(NoValidPathsError, <<>>)))>>
                       /\ pc' = "rejected"
                       /\ UNCHANGED <<approvalContent, didApprove>>
                  ELSE IF Len(disallowedPaths) > 0
                  THEN LET errorMsg ==
                               RooIgnoreError(<<<<"Deletion prevented for ignored path(s): ">>>>
                                                  \o disallowedPaths)
                       IN /\ log' = log \o PolicyQueries(paths)
                                        \o <<Say("rooignore_error", errorMsg),
                                             Push(ToolError(errorMsg))>>
                          /\ pc' = "rejected"
                          /\ UNCHANGED <<approvalContent, didApprove, consecutiveMistakeCount>>
                  ELSE IF b.partial
                  THEN /\ log' \in {log \o PolicyQueries(paths) \o <<Ask(content, settled)>> :
                                       settled \in Settlements}
                       /\ approvalContent' = content
                       /\ pc' = AfterAnnounce(log'[Len(log')].c)
                       /\ UNCHANGED <<didApprove, consecutiveMistakeCount>>
                  ELSE /\ consecutiveMistakeCount' = 0
                       /\ log' = log \o PolicyQueries(paths) \o <<AskApproval(content)>>
                       /\ approvalContent' = content
                       /\ didApprove' = "pending"
                       /\ pc' = "awaiting"
    /\ UNCHANGED prompts

\* a gate whose answer is not looked at: the loop starts whatever was decided
DeleteItemsDecideAnyAnswer(answer) ==
    /\ pc = "awaiting"
    /\ tool = "delete"
    /\ didApprove' = IF answer THEN "yes" ELSE "no"
    /\ pc' = "executing"
    /\ idx' = 1
    /\ UNCHANGED <<tool, block, relPaths, itemsToProcess, validationErrors, range, maxReadFileLine,
                   approvalContent, results, session, rooIgnore, fs, log, entry>>
    /\ UNCHANGED prompts

\* const didApprove = await askApproval("tool", approvalContent)
DeleteItemsDecide(answer) ==
    /\ pc = "awaiting"
    /\ tool = "delete"
    /\ didApprove' = IF answer THEN "yes" ELSE "no"
    /\ pc' = IF answer THEN "executing" ELSE "abandoned"
    /\ idx' = IF answer THEN 1 ELSE idx
    /\ UNCHANGED <<tool, block, relPaths, itemsToProcess, validationErrors, range, maxReadFileLine,
                   approvalContent, results, session, rooIgnore, fs, log, entry>>
    /\ UNCHANGED prompts

\* outcomes of deletions started together: each sees the workspace of the start
DeleteOutcomesAtStart(abs) ==
    IF abs \in InitialFs THEN {NoError, NoPermissions, BareError} ELSE {FileNotFound}

\* outcomes of vscode.workspace.fs.delete(uri, {recursive: true, useTrash: false})
DeleteOutcomes(abs) ==
    IF abs \in fs THEN {NoError, NoPermissions, BareError} ELSE {FileNotFound}

\* a catch block that knows no special case
IsNotFoundNever(error) == FALSE

\* error?.code === "FileNotFound"
IsNotFound(error) == error.code = "FileNotFound"

\* a loop that reports the resolved absolute path of each item
DeleteItemsItemAbsolute(error) ==
    /\ pc = "executing"
    /\ tool = "delete"
    /\ idx <= Len(relPaths)
    /\ LET relPath == relPaths[idx]
           absolutePath == Resolve(relPath)
       IN /\ error \in DeleteOutcomes(absolutePath)
          /\ IF error = NoError
             THEN /\ fs' = {p \in fs : ~IsUnder(p, absolutePath)}
                  /\ results' = Append(results, [path |-> absolutePath, status |-> "success",
                                                 error |-> NoMsg])
                  /\ didEditFile' = TRUE
                  /\ log' = Append(log, FsCall("delete", absolutePath, error))
             ELSE IF IsNotFound(error)
             THEN /\ results' = Append(results,
                                       [path |-> absolutePath, status |-> "error",
                                        error |-> Msg("File or directory not found.", <<>>)])
                  /\ log' = Append(log, FsCall("delete", absolutePath, error))
                  /\ UNCHANGED <<fs, didEditFile>>
             ELSE /\ results' = Append(results,
                                       [path |-> absolutePath, status |-> "error",
                                        error |-> MessageOr(error, "Unknown error")])
                  /\ log' = log \o <<FsCall("delete", absolutePath, error),
                                     HandleError(<<"deleting ", relPath>>, error)>>
                  /\ UNCHANGED <<fs, didEditFile>>
    /\ idx' = idx + 1
    /\ UNCHANGED <<tool, block, pc, relPaths, itemsToProcess, validationErrors, range, maxReadFileLine,
                   approvalContent, didApprove, consecutiveMistakeCount, rooIgnore, entry>>
    /\ UNCHANGED prompts

\* a loop that tries a failed deletion a second time before recording it
DeleteItemsItemRetrying(error) ==
    /\ pc = "executing"
    /\ tool = "delete"
    /\ idx <= Len(relPaths)
    /\ LET relPath == relPaths[idx]
           absolutePath == Resolve(relPath)
       IN /\ error \in DeleteOutcomes(absolutePath)
          /\ IF error = NoError
             THEN /\ fs' = {p \in fs : ~IsUnder(p, absolutePath)}
                  /\ results' = Append(results, [path |-> relPath, status |-> "success",
                                                 error |-> NoMsg])
                  /\ didEditFile' = TRUE
                  /\ log' = Append(log, FsCall("delete", absolutePath, error))
             ELSE IF IsNotFound(error)
             THEN /\ results' = Append(results,
                                       [path |-> relPath, status |-> "error",
                                        error |-> Msg("File or directory not found.", <<>>)])
                  /\ log' = Append(log, FsCall("delete", absolutePath, error))
                  /\ UNCHANGED <<fs, didEditFile>>
             ELSE /\ results' = Append(results,
                                       [path |-> relPath, status |-> "error",
                                        error |-> MessageOr(error, "Unknown error")])
                  /\ log' = log \o <<FsCall("delete", absolutePath, error),
                                     FsCall("delete", absolutePath, error),
                                     HandleError(<<"deleting ", relPath>>, error)>>
                  /\ UNCHANGED <<fs, didEditFile>>
    /\ idx' = idx + 1
    /\ UNCHANGED <<tool, block, pc, relPaths, itemsToProcess, validationErrors, range, maxReadFileLine,
                   approvalContent, didApprove, consecutiveMistakeCount, rooIgnore, entry>>
    /\ UNCHANGED prompts

\* one iteration of the deletion loop
DeleteItemsItem(error) ==
    /\ pc = "executing"
    /\ tool = "delete"
    /\ idx <= Len(relPaths)
    /\ LET relPath == relPaths[idx]
           absolutePath == Resolve(relPath)
       IN /\ error \in DeleteOutcomes(absolutePath)
          /\ IF error = NoError
             THEN /\ fs' = {p \in fs : ~IsUnder(p, absolutePath)}
                  /\ results' = Append(results, [path |-> relPath, status |-> "success",
                                                 error |-> NoMsg])
                  /\ didEditFile' = TRUE
                  /\ log' = Append(log, FsCall("delete", absolutePath, error))
             ELSE IF IsNotFound(error)
             THEN /\ results' = Append(results,
                                       [path |-> relPath, status |-> "error",
                                        error |-> Msg("File or directory not found.", <<>>)])
                  /\ log' = Append(log, FsCall("delete", absolutePath, error))
                  /\ UNCHANGED <<fs, didEditFile>>
             ELSE /\ results' = Append(results,
                                       [path |-> relPath, status |-> "error",
                                        error |-> MessageOr(error, "Unknown error")])
                  /\ log' = log \o <<FsCall("delete", absolutePath, error),
                                     HandleError(<<"deleting ", relPath>>, error)>>
                  /\ UNCHANGED <<fs, didEditFile>>
    /\ idx' = idx + 1
    /\ UNCHANGED <<tool, block, pc, relPaths, itemsToProcess, validationErrors, range, maxReadFileLine,
                   approvalContent, didApprove, consecutiveMistakeCount, rooIgnore, entry>>
    /\ UNCHANGED prompts

\* the fixed-schema report of a mutating tool: one element per result
\* a report whose items all carry an error element
StatusReportWithErrors(root, itemTag, rs) ==
    [kind |-> "report", root |-> root,
     children |-> Map(rs, LAMBDA r : [tag |-> itemTag, path |-> r.path, status |-> r.status,
                                      error |-> <<r.error>>])]

StatusReport(root, itemTag, rs) ==
    [kind |-> "report", root |-> root,
     children |-> Map(rs, LAMBDA r : [tag |-> itemTag, path |-> r.path, status |-> r.status,
                                      error |-> IF IsTruthyMsg(r.error) THEN <<r.error>>
                                                ELSE <<>>])]

\* successCount / errorCount as counted by the formatting loop
\* a failure count that counts every result
ErrorCountOfAll(rs) == Len(rs)
ErrorCount(rs) == Count(rs, LAMBDA r : IsTruthyMsg(r.error))
SuccessCount(rs) == Count(rs, LAMBDA r : ~IsTruthyMsg(r.error))

Summary(text, rs) ==
    Msg(text, [ok |-> SuccessCount(rs),
               failed |-> IF ErrorCount(rs) > 0 THEN <<ErrorCount(rs)>> ELSE <<>>])

\* a report pushed without the summary message
DeleteItemsReportSilent ==
    /\ pc = "executing"
    /\ tool = "delete"
    /\ idx > Len(relPaths)
    /\ log' = Append(log, Push(StatusReport("deletion_results", "item", results)))
    /\ pc' = "done"
    /\ UNCHANGED <<tool, block, locals, session, rooIgnore, fs, entry>>
    /\ UNCHANGED prompts

\* format the final result, say the summary, push the report
DeleteItemsReport ==
    /\ pc = "executing"
    /\ tool = "delete"
    /\ idx > Len(relPaths)
    /\ log' = log \o <<Say("text", Summary("Batch deletion completed.", results)),
                       Push(StatusReport("deletion_results", "item", results))>>
    /\ pc' = "done"
    /\ UNCHANGED <<tool, block, locals, session, rooIgnore, fs, entry>>
    /\ UNCHANGED prompts

-----------------------------------------------------------------------------
(* createDirectoriesTool *)

CreateMissingDetail == "Expected a non-empty array of directory paths."

CreateApprovalContent(paths) ==
    [tool |-> "createDirectories",
     paths |-> Map(paths, LAMBDA p : [path |-> GetReadablePath(p), status |-> "none"]),
     reason |-> Msg("Will attempt to create director(y/ies)", <<Len(paths)>>)]

\* a tool that asks for approval without resetting the mistake count
CreateDirectoriesStartKeepingCount(b) ==
    /\ pc = "idle"
    /\ tool' = "create"
    /\ block' = b
    /\ UNCHANGED <<itemsToProcess, validationErrors, range, maxReadFileLine, idx, results,
                   didEditFile, rooIgnore, fs, entry>>
    /\ IF IsMissingParam(b.paths)
       THEN /\ consecutiveMistakeCount' = consecutiveMistakeCount + 1
            /\ log' = log \o <<SayMissingParam("create_directories", "paths"),
                               Push(MissingParamError("create_directories", "paths",
                                                      CreateMissingDetail))>>
            /\ pc' = "rejected"
            /\ UNCHANGED <<relPaths, approvalContent, didApprove>>
       ELSE LET paths == FilterPaths(b.paths.a)
                content == CreateApprovalContent(paths)
            IN /\ relPaths' = paths
               /\ IF Len(paths) = 0
                  THEN /\ consecutiveMistakeCount' = consecutiveMistakeCount + 1
                       /\ log' = log \o <<Say("error", Msg(NoValidPathsSaid, <<>>)),
                                          Push(ToolError(Msg(NoValidPathsError, <<>>)))>>
                       /\ pc' = "rejected"
                       /\ UNCHANGED <<approvalContent, didApprove>>
                  ELSE IF b.partial
                  THEN /\ log' \in {Append(log, Ask(content, settled)) : settled \in Settlements}
                       /\ approvalContent' = content
                       /\ pc' = AfterAnnounce(log'[Len(log')].c)
                       /\ UNCHANGED <<didApprove, consecutiveMistakeCount>>
                  ELSE /\ UNCHANGED consecutiveMistakeCount
                       /\ log' = Append(log, AskApproval(content))
                       /\ approvalContent' = content
                       /\ didApprove' = "pending"
                       /\ pc' = "awaiting"
    /\ UNCHANGED prompts

\* the invocation up to its first suspension or return; no policy check here
CreateDirectoriesStart(b) ==
    /\ pc = "idle"
    /\ tool' = "create"
    /\ block' = b
    /\ UNCHANGED <<itemsToProcess, validationErrors, range, maxReadFileLine, idx, results,
                   didEditFile, rooIgnore, fs, entry>>
    /\ IF IsMissingParam(b.paths)
       THEN /\ consecutiveMistakeCount' = consecutiveMistakeCount + 1
            /\ log' = log \o <<SayMissingParam("create_directories", "paths"),
                               Push(MissingParamError("create_directories", "paths",
                                                      CreateMissingDetail))>>
            /\ pc' = "rejected"
            /\ UNCHANGED <<relPaths, approvalContent, didApprove>>
       ELSE LET paths == FilterPaths(b.paths.a)
                content == CreateApprovalContent(paths)
            IN /\ relPaths' = paths
               /\ IF Len(paths) = 0
                  THEN /\ consecutiveMistakeCount' = consecutiveMistakeCount + 1
                       /\ log' = log \o <<Say("error", Msg(NoValidPathsSaid, <<>>)),
                                          Push(ToolError(Msg(NoValidPathsError, <<>>)))>>
                       /\ pc' = "rejected"
                       /\ UNCHANGED <<approvalContent, didApprove>>
                  ELSE IF b.partial
                  THEN /\ log' \in {Append(log, Ask(content, settled)) : settled \in Settlements}
                       /\ approvalContent' = content
                       /\ pc' = AfterAnnounce(log'[Len(log')].c)
                       /\ UNCHANGED <<didApprove, consecutiveMistakeCount>>
                  ELSE /\ consecutiveMistakeCount' = 0
                       /\ log' = Append(log, AskApproval(content))
                       /\ approvalContent' = content
                       /\ didApprove' = "pending"
                       /\ pc' = "awaiting"
    /\ UNCHANGED prompts

\* an approval that is followed only when the policy allows every directory
CreateDirectoriesDecideStrict(answer) ==
    /\ pc = "awaiting"
    /\ tool = "create"
    /\ didApprove' = IF answer THEN "yes" ELSE "no"
    /\ pc' = IF answer /\ \A k \in 1..Len(relPaths) : AccessAllowed(relPaths[k])
             THEN "executing" ELSE "abandoned"
    /\ idx' = IF answer THEN 1 ELSE idx
    /\ UNCHANGED <<tool, block, relPaths, itemsToProcess, validationErrors, range, maxReadFileLine,
                   approvalContent, results, session, rooIgnore, fs, log, entry>>
    /\ UNCHANGED prompts

\* const didApprove = await askApproval("tool", approvalContent)
CreateDirectoriesDecide(answer) ==
    /\ pc = "awaiting"
    /\ tool = "create"
    /\ didApprove' = IF answer THEN "yes" ELSE "no"
    /\ pc' = IF answer THEN "executing" ELSE "abandoned"
    /\ idx' = IF answer THEN 1 ELSE idx
    /\ UNCHANGED <<tool, block, relPaths, itemsToProcess, validationErrors, range, maxReadFileLine,
                   approvalContent, results, session, rooIgnore, fs, log, entry>>
    /\ UNCHANGED prompts

\* the directory and the parents it needs, below the working directory
WithParents(abs) == {Resolve(SubSeq(abs, Len(Cwd) + 2, k)) : k \in
                        {j \in Len(Cwd) + 2..Len(abs) : j = Len(abs) \/ abs[j + 1] = "/"}}

\* outcomes of vscode.workspace.fs.createDirectory(uri)
CreateDirectoryOutcomes == {NoError, NoPermissions, BareError}

\* a loop that gives up at the first directory that cannot be created
CreateDirectoriesItemStopOnError(error) ==
    /\ pc = "executing"
    /\ tool = "create"
    /\ idx <= Len(relPaths)
    /\ error \in CreateDirectoryOutcomes
    /\ LET relDirPath == relPaths[idx]
           absolutePath == Resolve(relDirPath)
       IN IF error = NoError
          THEN /\ fs' = fs \cup WithParents(absolutePath)
               /\ results' = Append(results, [path |-> relDirPath, status |-> "success",
                                              error |-> NoMsg])
               /\ didEditFile' = TRUE
               /\ log' = Append(log, FsCall("createDirectory", absolutePath, error))
               /\ idx' = idx + 1
          ELSE /\ results' = Append(results,
                                    [path |-> relDirPath, status |-> "error",
                                     error |-> MessageOr(error, "Unknown error")])
               /\ log' = log \o <<FsCall("createDirectory", absolutePath, error),
                                  HandleError(<<"creating directory ", relDirPath>>, error)>>
               /\ idx' = Len(relPaths) + 1
               /\ UNCHANGED <<fs, didEditFile>>
    /\ UNCHANGED <<tool, block, pc, relPaths, itemsToProcess, validationErrors, range, maxReadFileLine,
                   approvalContent, didApprove, consecutiveMistakeCount, rooIgnore, entry>>
    /\ UNCHANGED prompts

\* one iteration of the creation loop
CreateDirectoriesItem(error) ==
    /\ pc = "executing"
    /\ tool = "create"
    /\ idx <= Len(relPaths)
    /\ error \in CreateDirectoryOutcomes
    /\ LET relDirPath == relPaths[idx]
           absolutePath == Resolve(relDirPath)
       IN IF error = NoError
          THEN /\ fs' = fs \cup WithParents(absolutePath)
               /\ results' = Append(results, [path |-> relDirPath, status |-> "success",
                                              error |-> NoMsg])
               /\ didEditFile' = TRUE
               /\ log' = Append(log, FsCall("createDirectory", absolutePath, error))
          ELSE /\ results' = Append(results,
                                    [path |-> relDirPath, status |-> "error",
                                     error |-> MessageOr(error, "Unknown error")])
               /\ log' = log \o <<FsCall("createDirectory", absolutePath, error),
                                  HandleError(<<"creating directory ", relDirPath>>, error)>>
               /\ UNCHANGED <<fs, didEditFile>>
    /\ idx' = idx + 1
    /\ UNCHANGED <<tool, block, pc, relPaths, itemsToProcess, validationErrors, range, maxReadFileLine,
                   approvalContent, didApprove, consecutiveMistakeCount, rooIgnore, entry>>
    /\ UNCHANGED prompts

CreateDirectoriesReport ==
    /\ pc = "executing"
    /\ tool = "create"
    /\ idx > Len(relPaths)
    /\ log' = log \o <<Say("text", Summary("Batch directory creation completed.", results)),
                       Push(StatusReport("creation_results", "directory", results))>>
    /\ pc' = "done"
    /\ UNCHANGED <<tool, block, locals, session, rooIgnore, fs, entry>>
    /\ UNCHANGED prompts

-----------------------------------------------------------------------------
(* listDirectoriesTool *)

ListMissingDetail == "Expected a non-empty array of directory paths."

\* a pre-check that finds nothing to refuse
DisallowedPathsNone(paths) == <<>>

\* readable paths of the entries the policy denies (read and list)
DisallowedPaths(paths) ==
    Map(Filter(paths, LAMBDA p : ~AccessAllowed(p)), LAMBDA p : GetReadablePath(p))

\* String.prototype.toLowerCase on the letters that occur
LowerCase(s) ==
    Map(s, LAMBDA c : CASE c = "T" -> "t" [] c = "R" -> "r" [] c = "U" -> "u"
                        [] c = "E" -> "e" [] OTHER -> c)

\* recursiveRaw?.toLowerCase() === "true"
Recursive(recursiveRaw) ==
    recursiveRaw.t = "string" /\ LowerCase(recursiveRaw.s) = <<"t", "r", "u", "e">>

ListApprovalContent(paths, recursive) ==
    [tool |-> "listDirectories",
     paths |-> Map(paths, LAMBDA p : [path |-> GetReadablePath(p), status |-> "none"]),
     reason |-> Msg("recursive", <<recursive>>)]

ListDirectoriesStart(b) ==
    /\ pc = "idle"
    /\ tool' = "list"
    /\ block' = b
    /\ UNCHANGED <<itemsToProcess, validationErrors, range, maxReadFileLine, idx, results,
                   didEditFile, rooIgnore, fs, entry>>
    /\ IF IsMissingParam(b.paths)
       THEN /\ consecutiveMistakeCount' = consecutiveMistakeCount + 1
            /\ log' = log \o <<SayMissingParam("list_directories", "paths"),
                               Push(MissingParamError("list_directories", "paths",
                                                      ListMissingDetail))>>
            /\ pc' = "rejected"
            /\ UNCHANGED <<relPaths, approvalContent, didApprove>>
       ELSE LET paths == FilterPaths(b.paths.a)
                disallowedPaths == DisallowedPaths(paths)
                content == ListApprovalContent(paths, Recursive(b.recursive))
            IN /\ relPaths' = paths
               /\ IF Len(paths) = 0
                  THEN /\ consecutiveMistakeCount' = consecutiveMistakeCount + 1
                       /\ log' = log \o <<Say("error", Msg(NoValidPathsSaid, <<>>)),
                                          Push(ToolError(Msg(NoValidPathsError, <<>>)))>>
                       /\ pc' = "rejected"
                       /\ UNCHANGED <<approvalContent, didApprove>>
                  ELSE IF Len(disallowedPaths) > 0
                  THEN LET errorMsg == RooIgnoreError(disallowedPaths)
                       IN /\ log' = log \o PolicyQueries(paths)
                                        \o <<Say("rooignore_error", errorMsg),
                                             Push(ToolError(errorMsg))>>
                          /\ pc' = "rejected"
                          /\ UNCHANGED <<approvalContent, didApprove, consecutiveMistakeCount>>
                  ELSE IF b.partial
                  THEN /\ log' \in {log \o PolicyQueries(paths) \o <<Ask(content, settled)>> :
                                       settled \in Settlements}
                       /\ approvalContent' = content
                       /\ pc' = AfterAnnounce(log'[Len(log')].c)
                       /\ UNCHANGED <<didApprove, consecutiveMistakeCount>>
                  ELSE /\ consecutiveMistakeCount' = 0
                       /\ log' = log \o PolicyQueries(paths) \o <<AskApproval(content)>>
                       /\ approvalContent' = content
                       /\ didApprove' = "pending"
                       /\ pc' = "awaiting"
    /\ UNCHANGED prompts

\* a gate whose answer is not looked at: the loop starts whatever was decided
ListDirectoriesDecideAnyAnswer(answer) ==
    /\ pc = "awaiting"
    /\ tool = "list"
    /\ didApprove' = IF answer THEN "yes" ELSE "no"
    /\ pc' = "executing"
    /\ idx' = 1
    /\ log' = Append(log, Ev("getState", "showRooIgnoredFiles", Undef, "default"))
    /\ UNCHANGED <<tool, block, relPaths, itemsToProcess, validationErrors, range, maxReadFileLine,
                   approvalContent, results, session, rooIgnore, fs, entry>>
    /\ UNCHANGED prompts

\* const didApprove = await askApproval("tool", approvalContent)
ListDirectoriesDecide(answer) ==
    /\ pc = "awaiting"
    /\ tool = "list"
    /\ didApprove' = IF answer THEN "yes" ELSE "no"
    /\ pc' = IF answer THEN "executing" ELSE "abandoned"
    /\ idx' = IF answer THEN 1 ELSE idx
    /\ log' = IF answer
              THEN Append(log, Ev("getState", "showRooIgnoredFiles", Undef, "default"))
              ELSE log
    /\ UNCHANGED <<tool, block, relPaths, itemsToProcess, validationErrors, range, maxReadFileLine,
                   approvalContent, results, session, rooIgnore, fs, entry>>
    /\ UNCHANGED prompts

\* outcomes of listFiles(absolutePath, recursive, 200): [files, didHitLimit] or a throw
ListFilesOutcomes ==
    {[error |-> NoError, didHitLimit |-> h] : h \in BOOLEAN}
        \cup {[error |-> e, didHitLimit |-> FALSE] : e \in {FileNotFound, BareError}}

\* a listing loop that asks for approval before each directory
ListDirectoriesItemAsking(outcome) ==
    /\ pc = "executing"
    /\ tool = "list"
    /\ idx <= Len(relPaths)
    /\ outcome \in ListFilesOutcomes
    /\ LET relDirPath == relPaths[idx]
           absolutePath == Resolve(relDirPath)
           denied == [code |-> "Error", message |-> "rooIgnoreError"]
       IN IF ~AccessAllowed(relDirPath)
          THEN \* throw new Error(formatResponse.rooIgnoreError(relDirPath))
               /\ outcome = [error |-> NoError, didHitLimit |-> FALSE]
               /\ results' = Append(results,
                                    [path |-> relDirPath, content |-> NoMsg,
                                     error |-> RooIgnoreError(<<relDirPath>>),
                                     didHitLimit |-> FALSE])
               /\ log' = log \o <<AskApproval(approvalContent), PolicyQuery(relDirPath, AccessAllowed(relDirPath)),
                                  HandleError(<<"listing directory ", relDirPath>>, denied)>>
          ELSE IF outcome.error = NoError
          THEN /\ results' = Append(results,
                                    [path |-> relDirPath,
                                     content |-> Msg("formatFilesList", absolutePath),
                                     error |-> NoMsg,
                                     didHitLimit |-> outcome.didHitLimit])
               /\ log' = log \o <<AskApproval(approvalContent), PolicyQuery(relDirPath, AccessAllowed(relDirPath)),
                                  FsCall("listFiles", absolutePath, outcome)>>
          ELSE /\ results' = Append(results,
                                    [path |-> relDirPath, content |-> NoMsg,
                                     error |-> MessageOr(outcome.error,
                                                         "Unknown error listing directory"),
                                     didHitLimit |-> FALSE])
               /\ log' = log \o <<AskApproval(approvalContent), PolicyQuery(relDirPath, AccessAllowed(relDirPath)),
                                  FsCall("listFiles", absolutePath, outcome),
                                  HandleError(<<"listing directory ", relDirPath>>,
                                              outcome.error)>>
    /\ idx' = idx + 1
    /\ UNCHANGED <<tool, block, pc, relPaths, itemsToProcess, validationErrors, range, maxReadFileLine,
                   approvalContent, didApprove, session, rooIgnore, fs, entry>>
    /\ UNCHANGED prompts

\* one iteration of the listing loop
ListDirectoriesItem(outcome) ==
    /\ pc = "executing"
    /\ tool = "list"
    /\ idx <= Len(relPaths)
    /\ outcome \in ListFilesOutcomes
    /\ LET relDirPath == relPaths[idx]
           absolutePath == Resolve(relDirPath)
           denied == [code |-> "Error", message |-> "rooIgnoreError"]
       IN IF ~AccessAllowed(relDirPath)
          THEN \* throw new Error(formatResponse.rooIgnoreError(relDirPath))
               /\ outcome = [error |-> NoError, didHitLimit |-> FALSE]
               /\ results' = Append(results,
                                    [path |-> relDirPath, content |-> NoMsg,
                                     error |-> RooIgnoreError(<<relDirPath>>),
                                     didHitLimit |-> FALSE])
               /\ log' = log \o <<PolicyQuery(relDirPath, AccessAllowed(relDirPath)),
                                  HandleError(<<"listing directory ", relDirPath>>, denied)>>
          ELSE IF outcome.error = NoError
          THEN /\ results' = Append(results,
                                    [path |-> relDirPath,
                                     content |-> Msg("formatFilesList", absolutePath),
                                     error |-> NoMsg,
                                     didHitLimit |-> outcome.didHitLimit])
               /\ log' = log \o <<PolicyQuery(relDirPath, AccessAllowed(relDirPath)),
                                  FsCall("listFiles", absolutePath, outcome)>>
          ELSE /\ results' = Append(results,
                                    [path |-> relDirPath, content |-> NoMsg,
                                     error |-> MessageOr(outcome.error,
                                                         "Unknown error listing directory"),
                                     didHitLimit |-> FALSE])
               /\ log' = log \o <<PolicyQuery(relDirPath, AccessAllowed(relDirPath)),
                                  FsCall("listFiles", absolutePath, outcome),
                                  HandleError(<<"listing directory ", relDirPath>>,
                                              outcome.error)>>
    /\ idx' = idx + 1
    /\ UNCHANGED <<tool, block, pc, relPaths, itemsToProcess, validationErrors, range, maxReadFileLine,
                   approvalContent, didApprove, session, rooIgnore, fs, entry>>
    /\ UNCHANGED prompts

\* the report of read and list: per item a path and content or error
ContentReport(root, itemTag, rs, Content(_)) ==
    [kind |-> "report", root |-> root,
     children |-> Map(rs, LAMBDA r :
        [tag |-> itemTag, path |-> r.path,
         content |-> IF r.content # NoMsg THEN <<Content(r)>> ELSE <<>>,
         error |-> IF r.content = NoMsg /\ IsTruthyMsg(r.error) THEN <<r.error>> ELSE <<>>])]

ListContent(r) == [text |-> r.content, limit_hit |-> r.didHitLimit]

ListDirectoriesReport ==
    /\ pc = "executing"
    /\ tool = "list"
    /\ idx > Len(relPaths)
    /\ log' = Append(log, Push(ContentReport("directories", "directory", results, ListContent)))
    /\ pc' = "done"
    /\ UNCHANGED <<tool, block, locals, session, rooIgnore, fs, entry>>
    /\ UNCHANGED prompts

-----------------------------------------------------------------------------
(* readFilesTool *)

ReadMissingDetail == "Expected a non-empty array of file paths."
DefaultMaxReadFileLine == 500

Digits == <<"0", "1", "2", "3", "4", "5", "6", "7", "8", "9">>
IsDigit(c) == \E d \in 1..10 : Digits[d] = c
DigitValue(c) == (CHOOSE d \in 1..10 : Digits[d] = c) - 1

RECURSIVE LeadingDigits(_)
LeadingDigits(s) ==
    IF s # <<>> /\ IsDigit(Head(s)) THEN <<Head(s)>> \o LeadingDigits(Tail(s)) ELSE <<>>

RECURSIVE DecimalValue(_)
DecimalValue(ds) ==
    IF ds = <<>> THEN 0
    ELSE 10 * DecimalValue(SubSeq(ds, 1, Len(ds) - 1)) + DigitValue(ds[Len(ds)])

NaN == [nan |-> TRUE, n |-> 0]
Number(n) == [nan |-> FALSE, n |-> n]

\* parseInt(string): leading blanks, an optional sign, then the leading decimal digits
ParseInt(s) ==
    LET t == TrimStart(s)
        signed == t # <<>> /\ Head(t) \in {"-", "+"}
        digits == LeadingDigits(IF signed THEN Tail(t) ELSE t)
    IN IF digits = <<>> THEN NaN
       ELSE IF signed /\ Head(t) = "-" THEN Number(0 - DecimalValue(digits))
       ELSE Number(DecimalValue(digits))

Max(a, b) == IF a >= b THEN a ELSE b

\* a conversion that takes the bound as the index
ZeroBasedUnshifted(line) == Max(0, line)

\* startLine = Math.max(0, startLine - 1): the 0-based index of a 1-based line
ZeroBased(line) == Max(0, line - 1)

\* the line-range parsing block: the parsed range, or the parameter error
ParseRange(startLineStr, endLineStr) ==
    LET start == IF IsFalsy(startLineStr) THEN NaN ELSE ParseInt(startLineStr.s)
        end == IF IsFalsy(endLineStr) THEN NaN ELSE ParseInt(endLineStr.s)
        startLine == IF IsFalsy(startLineStr) THEN Undef ELSE Defined(ZeroBased(start.n))
        endLine == IF IsFalsy(endLineStr) THEN Undef ELSE Defined(ZeroBased(end.n))
        parsed == [isRangeRead |-> ~IsFalsy(startLineStr) \/ ~IsFalsy(endLineStr),
                   startLine |-> startLine, endLine |-> endLine]
    IN IF ~IsFalsy(startLineStr) /\ start.nan
       THEN [error |-> "Invalid start_line value",
             said |-> Msg("Failed to parse start_line: ", startLineStr.s), range |-> parsed]
       ELSE IF ~IsFalsy(endLineStr) /\ end.nan
       THEN [error |-> "Invalid end_line value",
             said |-> Msg("Failed to parse end_line: ", endLineStr.s), range |-> parsed]
       ELSE IF startLine.def /\ endLine.def /\ startLine.n > endLine.n
       THEN [error |-> "Invalid line range: start_line > end_line.",
             said |-> Msg("start_line cannot be greater than end_line",
                          <<startLine.n + 1, endLine.n + 1>>),
             range |-> parsed]
       ELSE [error |-> "", said |-> NoMsg, range |-> parsed]

\* const { maxReadFileLine = 500 } = (await cline.providerRef.deref()?.getState()) ?? {}
MaxReadFileLineOf(setting) ==
    IF setting.def THEN setting.n ELSE DefaultMaxReadFileLine

\* the reason shown with the approval request
LineSnippet(r, max) ==
    IF r.startLine.def /\ r.endLine.def
    THEN Msg("linesRange", <<r.startLine.n + 1, r.endLine.n + 1>>)
    ELSE IF r.startLine.def THEN Msg("linesFromToEnd", <<r.startLine.n + 1>>)
    ELSE IF r.endLine.def THEN Msg("linesFromStartTo", <<r.endLine.n + 1>>)
    ELSE IF max = 0 THEN Msg("definitionsOnly", <<>>)
    ELSE IF max > 0 THEN Msg("maxLines", <<max>>)
    ELSE Msg("", <<>>)

ReadApprovalContent(paths, reason) ==
    [tool |-> "readFiles",
     paths |-> Map(paths, LAMBDA p : [path |-> GetReadablePath(p), status |-> "none"]),
     reason |-> reason]

\* the invocation up to its first suspension or return
ReadFilesStart(b, setting) ==
    /\ pc = "idle"
    /\ tool' = "read"
    /\ block' = b
    /\ UNCHANGED <<itemsToProcess, validationErrors, idx, results, didEditFile, rooIgnore, fs, entry>>
    /\ IF IsMissingParam(b.paths)
       THEN /\ setting = Undef
            /\ consecutiveMistakeCount' = consecutiveMistakeCount + 1
            /\ log' = log \o <<SayMissingParam("read_files", "paths"),
                               Push(MissingParamError("read_files", "paths",
                                                      ReadMissingDetail))>>
            /\ pc' = "rejected"
            /\ UNCHANGED <<relPaths, range, maxReadFileLine, approvalContent, didApprove>>
       ELSE LET paths == FilterPaths(b.paths.a)
                parsed == ParseRange(b.start_line, b.end_line)
                max == MaxReadFileLineOf(setting)
                disallowedPaths == DisallowedPaths(paths)
                content == ReadApprovalContent(paths, LineSnippet(parsed.range, max))
                state == Ev("getState", "maxReadFileLine", setting, max)
            IN /\ relPaths' = paths
               /\ IF Len(paths) = 0
                  THEN /\ setting = Undef
                       /\ consecutiveMistakeCount' = consecutiveMistakeCount + 1
                       /\ log' = log \o <<Say("error", Msg(NoValidPathsSaid, <<>>)),
                                          Push(ToolError(Msg(NoValidPathsError, <<>>)))>>
                       /\ pc' = "rejected"
                       /\ UNCHANGED <<range, maxReadFileLine, approvalContent, didApprove>>
                  ELSE IF parsed.error # ""
                  THEN /\ setting = Undef
                       /\ consecutiveMistakeCount' = consecutiveMistakeCount + 1
                       /\ log' = log \o <<Say("error", parsed.said),
                                          Push(ToolError(Msg(parsed.error, <<>>)))>>
                       /\ pc' = "rejected"
                       /\ UNCHANGED <<range, maxReadFileLine, approvalContent, didApprove>>
                  ELSE /\ range' = parsed.range
                       /\ maxReadFileLine' = max
                       /\ IF Len(disallowedPaths) > 0
                          THEN LET errorMsg == RooIgnoreError(disallowedPaths)
                               IN /\ log' = log \o <<state>> \o PolicyQueries(paths)
                                                \o <<Say("rooignore_error", errorMsg),
                                                     Push(ToolError(errorMsg))>>
                                  /\ pc' = "rejected"
                                  /\ UNCHANGED <<approvalContent, didApprove,
                                                 consecutiveMistakeCount>>
                          ELSE IF b.partial
                          THEN /\ log' \in {log \o <<state>> \o PolicyQueries(paths)
                                                \o <<Ask(content, settled)>> :
                                               settled \in Settlements}
                               /\ approvalContent' = content
                               /\ pc' = AfterAnnounce(log'[Len(log')].c)
                               /\ UNCHANGED <<didApprove, consecutiveMistakeCount>>
                          ELSE /\ consecutiveMistakeCount' = 0
                               /\ log' = log \o <<state>> \o PolicyQueries(paths)
                                             \o <<AskApproval(content)>>
                               /\ approvalContent' = content
                               /\ didApprove' = "pending"
                               /\ pc' = "awaiting"
    /\ UNCHANGED prompts

ReadFilesDecide(answer) ==
    /\ pc = "awaiting"
    /\ tool = "read"
    /\ didApprove' = IF answer THEN "yes" ELSE "no"
    /\ pc' = IF answer THEN "executing" ELSE "abandoned"
    /\ idx' = IF answer THEN 1 ELSE idx
    /\ UNCHANGED <<tool, block, relPaths, itemsToProcess, validationErrors, range, maxReadFileLine,
                   approvalContent, results, session, rooIgnore, fs, log, entry>>
    /\ UNCHANGED prompts

\* what the reading collaborators answer for one file:
\*   lines:  countFileLines (a count, or CountFailed when it rejects)
\*   binary: isBinaryFile ("yes", "no", or "fail" when it rejects)
\*   read:   readLines / extractTextFromFile (Text, EmptyText, or an error)
\*   defs:   parseSourceCodeDefinitionsForFile ("some", "none", or "fail")
LineCounts == {0, 2, 600}
CountFailed == 0 - 1
Text == [code |-> "none", message |-> "text"]
EmptyText == [code |-> "none", message |-> ""]
Quiet == [lines |-> CountFailed, binary |-> "fail", read |-> FileNotFound, defs |-> "none"]

AllOutcomes ==
    {Quiet} \cup [lines : LineCounts \cup {CountFailed}, binary : {"yes", "no", "fail"},
                  read : {Text, EmptyText, BareError}, defs : {"some", "none", "fail"}]

\* a text file that reads well, reads as empty or fails, or a missing file
PlainOutcomes ==
    {Quiet} \cup [lines : {2}, binary : {"no"}, read : {Text, EmptyText, BareError},
                  defs : {"none"}]

\* a missing file fails every collaborator
ReadOutcomes(abs) == IF abs \notin fs THEN {Quiet} ELSE AllOutcomes \ {Quiet}

\* currentTotalLines after the guarded countFileLines call
TotalLines(o) == IF o.lines = CountFailed THEN 0 ELSE o.lines

\* a detection whose failure counts as binary
IsBinaryOrUnknown(o) == o.binary # "no"

\* isBinaryFile(absolutePath).catch(() => false)
IsBinary(o) == o.binary = "yes"

\* a branch choice that truncates binary files like any other
ReadBranchIgnoringBinary(r, max, o) ==
    IF r.isRangeRead THEN "range"
    ELSE IF max >= 0 /\ TotalLines(o) > max THEN "truncate"
    ELSE "whole"

\* a branch choice that truncates a file of exactly the maximum length too
ReadBranchAtMaximum(r, max, o) ==
    IF r.isRangeRead THEN "range"
    ELSE IF ~IsBinary(o) /\ max >= 0 /\ TotalLines(o) >= max THEN "truncate"
    ELSE "whole"

\* which branch of the reading logic an item takes
ReadBranch(r, max, o) ==
    IF r.isRangeRead THEN "range"
    ELSE IF ~IsBinary(o) /\ max >= 0 /\ TotalLines(o) > max THEN "truncate"
    ELSE "whole"

\* addLineNumbers(content, startLine) of a non-empty text
AddLineNumbers(what, from) == Msg("numbered", <<what, from>>)

IsError(x) == x.code # "none"

\* one iteration of the reading loop
ReadFilesItem(o) ==
    /\ pc = "executing"
    /\ tool = "read"
    /\ idx <= Len(relPaths)
    /\ LET relPath == relPaths[idx]
           absolutePath == Resolve(relPath)
           allowed == AccessAllowed(relPath)
           branch == ReadBranch(range, maxReadFileLine, o)
           probes == <<PolicyQuery(relPath, allowed),
                       FsCall("countFileLines", absolutePath, o.lines),
                       FsCall("isBinaryFile", absolutePath, o.binary)>>
           failed(error) == [path |-> relPath, content |-> NoMsg,
                             error |-> MessageOr(error, "Unknown error reading file"),
                             isTruncated |-> FALSE, totalLines |-> 0,
                             sourceCodeDef |-> <<>>]
           read(content, truncated, def) ==
                            [path |-> relPath, content |-> content, error |-> NoMsg,
                             isTruncated |-> truncated, totalLines |-> TotalLines(o),
                             sourceCodeDef |-> def]
       IN /\ allowed => o \in ReadOutcomes(absolutePath)
          /\ IF ~allowed
             THEN \* throw new Error(formatResponse.rooIgnoreError(relPath))
                  /\ o = Quiet
                  /\ results' = Append(results,
                         [failed(NoError) EXCEPT !.error = RooIgnoreError(<<relPath>>)])
                  /\ log' = Append(log, PolicyQuery(relPath, allowed))
             ELSE IF branch = "range"
             THEN LET call == FsCall("readLines",
                                     <<absolutePath, range.endLine, range.startLine>>, o.read)
                      from == IF range.startLine.def THEN range.startLine.n + 1 ELSE 1
                  IN /\ o.defs = "none"
                     /\ log' = log \o probes \o <<call>>
                     /\ results' = Append(results,
                            IF IsError(o.read) THEN failed(o.read)
                            ELSE read(AddLineNumbers(o.read.message, from), FALSE, <<>>))
             ELSE IF branch = "truncate"
             THEN LET calls ==
                          (IF maxReadFileLine > 0
                           THEN <<FsCall("readLines",
                                         <<absolutePath, Defined(maxReadFileLine - 1),
                                           Defined(0)>>, o.read)>>
                           ELSE <<>>)
                          \o <<FsCall("parseSourceCodeDefinitionsForFile", absolutePath,
                                      o.defs)>>
                      readContentResult == IF maxReadFileLine > 0 THEN o.read ELSE EmptyText
                  IN /\ maxReadFileLine > 0 \/ o.read = EmptyText
                     /\ log' = log \o probes \o calls
                     /\ results' = Append(results,
                            IF IsError(readContentResult) THEN failed(readContentResult)
                            ELSE IF o.defs = "fail" THEN failed(BareError)
                            ELSE read(IF readContentResult # EmptyText
                                      THEN AddLineNumbers(readContentResult.message, 1)
                                      ELSE Msg("", <<>>),
                                      TRUE,
                                      IF o.defs = "some" THEN <<"definitions">> ELSE <<>>))
             ELSE /\ o.defs = "none"
                  /\ log' = log \o probes
                                \o <<FsCall("extractTextFromFile", absolutePath, o.read)>>
                  /\ results' = Append(results,
                         IF IsError(o.read) THEN failed(o.read)
                         ELSE read(IF o.read = EmptyText THEN Msg("", <<>>)
                                   ELSE Msg("extracted", absolutePath), FALSE, <<>>))
    /\ idx' = idx + 1
    /\ UNCHANGED <<tool, block, pc, relPaths, itemsToProcess, validationErrors, range, maxReadFileLine,
                   approvalContent, didApprove, session, rooIgnore, fs, entry>>
    /\ UNCHANGED prompts

\* the content block of one file: the text, and for a truncated file the trailer
ReadContent(r) ==
    [text |-> r.content,
     trailer |-> IF r.isTruncated
                 THEN <<Msg("Showing only of total lines",
                            <<maxReadFileLine, r.totalLines>>)>> \o r.sourceCodeDef
                 ELSE <<>>]

ReadFilesReport ==
    /\ pc = "executing"
    /\ tool = "read"
    /\ idx > Len(relPaths)
    /\ log' = Append(log, Push(ContentReport("files", "file", results, ReadContent)))
    /\ pc' = "done"
    /\ UNCHANGED <<tool, block, locals, session, rooIgnore, fs, entry>>
    /\ UNCHANGED prompts

-----------------------------------------------------------------------------
(* writeFilesTool *)

WriteMissingDetail == "Expected a non-empty array of {path, content} objects."

\* typeof item.path !== "string" || item.path.trim() === ""
PathInvalid(item) == item.path.t # "string" \/ Trim(item.path.s) = <<>>

\* a test that takes the empty string for a missing content
ContentInvalidOrEmpty(item) == item.content.t # "string" \/ item.content.s = <<>>

\* typeof item.content !== "string"
ContentInvalid(item) == item.content.t # "string"

\* the three validation messages, "Item at index <i> ..."
NotObjectError(i) == [index |-> i, kind |-> "object"]
PathError(i) == [index |-> i, kind |-> "path"]
ContentError(i) == [index |-> i, kind |-> "content"]

\* err.includes("missing a valid 'path'") and err.includes("missing 'content'")
IncludesPathText(err) == err.kind = "path"
IncludesContentText(err) == err.kind = "content"

\* err.includes(`Item at index ${j}`), for indices below 100
IncludesIndexText(err, j) ==
    j >= 0 /\ (err.index = j \/ (err.index >= 10 /\ err.index \div 10 = j))

\* item.content ?? ""
ContentOrEmpty(content) == IF content.t \in {"undefined", "null"} THEN Str(<<>>) ELSE content

\* the validation loop from index i (0-based) on
RECURSIVE ValidateItems(_, _, _, _)
ValidateItems(itemsInput, i, validItems, errors) ==
    IF i >= Len(itemsInput) THEN [validItems |-> validItems, errors |-> errors]
    ELSE LET item == itemsInput[i + 1]
         IN IF item.t # "object"
            THEN ValidateItems(itemsInput, i + 1, validItems, Append(errors, NotObjectError(i)))
            ELSE LET errors1 == IF PathInvalid(item) THEN Append(errors, PathError(i))
                                ELSE errors
                     errors2 == IF ContentInvalid(item) THEN Append(errors1, ContentError(i))
                                ELSE errors1
                 IN IF Len(errors2) = 0 /\ ~PathInvalid(item)
                    THEN ValidateItems(itemsInput, i + 1,
                                       Append(validItems,
                                              [path |-> Trim(item.path.s),
                                               content |-> ContentOrEmpty(item.content)]),
                                       errors2)
                    ELSE IF PathInvalid(item) /\ ContentInvalid(item)
                    THEN [validItems |-> validItems, errors |-> errors2]  \* break
                    ELSE ValidateItems(itemsInput, i + 1, validItems, errors2)

\* itemsInput.findIndex((inputItem) => inputItem.path === item.path):
\* the 0-based index, -1, or "throws" when a null entry is reached first
RECURSIVE FindIndex(_, _, _)
FindIndex(itemsInput, path, i) ==
    IF i >= Len(itemsInput) THEN [throws |-> FALSE, index |-> 0 - 1]
    ELSE IF itemsInput[i + 1].t = "null" THEN [throws |-> TRUE, index |-> i]
    ELSE IF itemsInput[i + 1].path = Str(path) THEN [throws |-> FALSE, index |-> i]
    ELSE FindIndex(itemsInput, path, i + 1)

\* the filter over validItems: the items kept, and whether evaluating it throws
FilterValidItems(itemsInput, validItems, errors) ==
    LET found(item) == FindIndex(itemsInput, item.path, 0)
        dropped(item) == \E k \in 1..Len(errors) :
                             /\ IncludesIndexText(errors[k], found(item).index)
                             /\ IncludesPathText(errors[k])
    IN [throws |-> Len(errors) > 0 /\ \E k \in 1..Len(validItems) : found(validItems[k]).throws,
        items |-> Filter(validItems, LAMBDA item : ~dropped(item))]

\* fileExistsAtPath for every item, before the approval request
FileStatuses(items) ==
    Map(items, LAMBDA item : [path |-> item.path, exists |-> Resolve(item.path) \in fs])

\* a descriptor that announces every file as new
StatusAlwaysCreate(statuses, path) == "create"

\* fileStatuses.find((s) => s.path === p.path)?.exists ? "overwrite" : "create"
StatusOf(statuses, path) ==
    LET hits == {k \in 1..Len(statuses) : statuses[k].path = path}
    IN IF hits # {} /\ statuses[CHOOSE k \in hits : \A j \in hits : k <= j].exists
       THEN "overwrite" ELSE "create"

WriteApprovalContent(items) ==
    LET statuses == FileStatuses(items)
        newFiles == Filter(statuses, LAMBDA st : ~st.exists)
        existingFiles == Filter(statuses, LAMBDA st : st.exists)
    IN [tool |-> "writeFiles",
        paths |-> Map(items, LAMBDA item : [path |-> GetReadablePath(item.path),
                                            status |-> StatusOf(statuses, item.path)]),
        reason |-> Msg("Will create new file(s)",
                       [new |-> Len(newFiles),
                        overwrite |-> IF Len(existingFiles) > 0 THEN <<Len(existingFiles)>>
                                      ELSE <<>>])]

\* the invocation up to its first suspension or return
WriteFilesStart(b) ==
    /\ pc = "idle"
    /\ tool' = "write"
    /\ block' = b
    /\ UNCHANGED <<relPaths, range, maxReadFileLine, idx, results,
                   didEditFile, rooIgnore, fs, entry>>
    /\ IF IsMissingParam(b.items)
       THEN /\ consecutiveMistakeCount' = consecutiveMistakeCount + 1
            /\ log' = log \o <<SayMissingParam("write_files", "items"),
                               Push(MissingParamError("write_files", "items",
                                                      WriteMissingDetail))>>
            /\ pc' = "rejected"
            /\ UNCHANGED <<itemsToProcess, validationErrors, approvalContent, didApprove>>
       ELSE LET itemsInput == b.items.a
                validated == ValidateItems(itemsInput, 0, <<>>, <<>>)
                errors == validated.errors
                filtered == FilterValidItems(itemsInput, validated.validItems, errors)
                items == filtered.items
                paths == Map(items, LAMBDA item : item.path)
                disallowedPaths == Filter(paths, LAMBDA p : ~AccessAllowed(p))
                content == WriteApprovalContent(items)
            IN /\ validationErrors' = errors
               /\ IF Len(errors) > 0
                     /\ \E k \in 1..Len(errors) :
                            IncludesPathText(errors[k]) /\ IncludesContentText(errors[k])
                  THEN /\ consecutiveMistakeCount' = consecutiveMistakeCount + 1
                       /\ log' = log \o <<Say("error", Msg("Invalid 'items' parameter: ", errors)),
                                          Push(ToolError(Msg("Invalid 'items' parameter: ",
                                                             errors)))>>
                       /\ pc' = "rejected"
                       /\ UNCHANGED <<itemsToProcess, approvalContent, didApprove>>
                  ELSE IF filtered.throws
                  THEN \* TypeError: inputItem is null
                       /\ log' = Append(log, Ev("throw", "TypeError", "inputItem.path", "thrown"))
                       /\ pc' = "threw"
                       /\ UNCHANGED <<itemsToProcess, approvalContent, didApprove,
                                      consecutiveMistakeCount>>
                  ELSE /\ itemsToProcess' = items
                       /\ IF Len(items) = 0
                          THEN LET errorMsg ==
                                       Msg("Invalid 'items' parameter: No valid items found. Errors: ",
                                           errors)
                               IN /\ consecutiveMistakeCount' = consecutiveMistakeCount + 1
                                  /\ log' = log \o <<Say("error", errorMsg),
                                                     Push(ToolError(errorMsg))>>
                                  /\ pc' = "rejected"
                                  /\ UNCHANGED <<approvalContent, didApprove>>
                          ELSE IF Len(disallowedPaths) > 0
                          THEN LET errorMsg == RooIgnoreError(disallowedPaths)
                               IN /\ log' = log \o PolicyQueries(paths)
                                                \o <<Say("rooignore_error", errorMsg),
                                                     Push(ToolError(errorMsg))>>
                                  /\ pc' = "rejected"
                                  /\ UNCHANGED <<approvalContent, didApprove,
                                                 consecutiveMistakeCount>>
                          ELSE LET probes == Map(paths, LAMBDA p :
                                                 FsCall("fileExistsAtPath", Resolve(p),
                                                        Resolve(p) \in fs))
                               IN /\ approvalContent' = content
                                  /\ IF b.partial
                                     THEN /\ log' \in {log \o PolicyQueries(paths) \o probes
                                                           \o <<Ask(content, settled)>> :
                                                          settled \in Settlements}
                                          /\ pc' = AfterAnnounce(log'[Len(log')].c)
                                          /\ UNCHANGED <<didApprove, consecutiveMistakeCount>>
                                     ELSE /\ consecutiveMistakeCount' = 0
                                          /\ log' = log \o PolicyQueries(paths) \o probes
                                                        \o <<AskApproval(content)>>
                                          /\ didApprove' = "pending"
                                          /\ pc' = "awaiting"
    /\ UNCHANGED prompts

WriteFilesDecide(answer) ==
    /\ pc = "awaiting"
    /\ tool = "write"
    /\ didApprove' = IF answer THEN "yes" ELSE "no"
    /\ pc' = IF answer THEN "executing" ELSE "abandoned"
    /\ idx' = IF answer THEN 1 ELSE idx
    /\ UNCHANGED <<tool, block, relPaths, itemsToProcess, validationErrors, range,
                   maxReadFileLine, approvalContent, results, session, rooIgnore, fs, log,
                   entry>>
    /\ UNCHANGED prompts

\* new TextEncoder().encode(content): one byte per character of the texts used
Encode(content) == Map(content.s, LAMBDA c : IF c = " " THEN 32 ELSE 120)

\* a loop that writes without creating the parent directory first
WritesWithoutDirectory(absolutePath) == FALSE

\* dir !== absolutePath && dir !== cline.cwd && dir !== "."
NeedsDirectory(absolutePath) ==
    LET dir == Dirname(absolutePath)
    IN dir # absolutePath /\ dir # Cwd /\ dir # <<".">>

\* outcomes of vscode.workspace.fs.writeFile(uri, bytes)
WriteFileOutcomes == {NoError, NoPermissions, BareError}

\* one iteration of the writing loop: mk is the outcome of createDirectory, wr of writeFile
WriteFilesItem(mk, wr) ==
    /\ pc = "executing"
    /\ tool = "write"
    /\ idx <= Len(itemsToProcess)
    /\ mk \in CreateDirectoryOutcomes
    /\ wr \in WriteFileOutcomes
    /\ LET item == itemsToProcess[idx]
           absolutePath == Resolve(item.path)
           dir == Dirname(absolutePath)
           mkdir == IF NeedsDirectory(absolutePath)
                    THEN <<FsCall("createDirectory", dir, mk)>> ELSE <<>>
           error == IF NeedsDirectory(absolutePath) /\ mk # NoError THEN mk ELSE wr
           write == IF NeedsDirectory(absolutePath) /\ mk # NoError THEN <<>>
                    ELSE <<Ev("fs", "writeFile", absolutePath,
                              [bytes |-> Encode(item.content), error |-> wr])>>
       IN /\ NeedsDirectory(absolutePath) \/ mk = NoError
          /\ (NeedsDirectory(absolutePath) /\ mk # NoError) => wr = NoError
          /\ fs' = fs \cup (IF mkdir # <<>> /\ mk = NoError THEN WithParents(dir) ELSE {})
                      \cup (IF error = NoError THEN {absolutePath} ELSE {})
          /\ IF error = NoError
             THEN /\ results' = Append(results, [path |-> item.path, status |-> "success",
                                                 error |-> NoMsg])
                  /\ didEditFile' = TRUE
                  /\ log' = log \o mkdir \o write
             ELSE /\ results' = Append(results,
                                       [path |-> item.path, status |-> "error",
                                        error |-> MessageOr(error, "Unknown error")])
                  /\ log' = log \o mkdir \o write
                                \o <<HandleError(<<"writing file ", item.path>>, error)>>
                  /\ UNCHANGED didEditFile
    /\ idx' = idx + 1
    /\ UNCHANGED <<tool, block, pc, relPaths, itemsToProcess, validationErrors, range,
                   maxReadFileLine, approvalContent, didApprove, consecutiveMistakeCount,
                   rooIgnore, entry>>
    /\ UNCHANGED prompts

WriteFilesReport ==
    /\ pc = "executing"
    /\ tool = "write"
    /\ idx > Len(itemsToProcess)
    /\ log' = log \o <<Say("text", Summary("Batch write operation completed.", results)),
                       Push(StatusReport("write_results", "file", results))>>
    /\ pc' = "done"
    /\ UNCHANGED <<tool, block, locals, session, rooIgnore, fs, entry>>
    /\ UNCHANGED prompts

-----------------------------------------------------------------------------
(* The environment while the approval decision is pending *)

\* the ignore rules are edited: one path changes side
PolicyChange(p) ==
    /\ pc = "awaiting"
    /\ rooIgnore.present
    /\ rooIgnore' = [rooIgnore EXCEPT !.ignored =
                        IF p \in @ THEN @ \ {p} ELSE @ \cup {p}]
    /\ UNCHANGED <<tool, block, pc, locals, session, fs, log, entry>>
    /\ UNCHANGED prompts

-----------------------------------------------------------------------------
(* Collaborators that reject: no tool wraps its body in a try, so a rejected *)
(* await outside the per-item try, or inside its catch, leaves the tool      *)

Rejected(call) == [call EXCEPT !.c = "rejected"]
Thrown(from) == Ev("throw", "rejection", from, "thrown")

\* const didApprove = await askApproval("tool", approvalContent), rejecting
AskApprovalRejects ==
    /\ pc = "awaiting"
    /\ didApprove' = "rejected"
    /\ log' = Append(log, Thrown("askApproval"))
    /\ pc' = "threw"
    /\ UNCHANGED <<tool, block, relPaths, itemsToProcess, validationErrors, range, maxReadFileLine,
                   approvalContent, idx, results, session, rooIgnore, fs, entry>>
    /\ UNCHANGED prompts

\* the first underlying call of the item fails with an error that is not
\* not-found and, in the catch block, await handleError(...) rejects: the
\* results.push that follows it is not reached
HandleErrorRejects(error) ==
    /\ pc = "executing"
    /\ tool \in {"delete", "create", "list", "write"}
    /\ idx <= Len(IF tool = "write" THEN itemsToProcess ELSE relPaths)
    /\ error \in {NoPermissions, BareError}
    /\ LET relPath == IF tool = "write" THEN itemsToProcess[idx].path ELSE relPaths[idx]
           absolutePath == Resolve(relPath)
           calls ==
               CASE tool = "delete" -> <<FsCall("delete", absolutePath, error)>>
                 [] tool = "create" -> <<FsCall("createDirectory", absolutePath, error)>>
                 [] tool = "list" ->
                        <<PolicyQuery(relPath, AccessAllowed(relPath)),
                          FsCall("listFiles", absolutePath,
                                 [error |-> error, didHitLimit |-> FALSE])>>
                 [] tool = "write" ->
                        IF NeedsDirectory(absolutePath)
                        THEN <<FsCall("createDirectory", Dirname(absolutePath), error)>>
                        ELSE <<Ev("fs", "writeFile", absolutePath,
                                  [bytes |-> Encode(itemsToProcess[idx].content),
                                   error |-> error])>>
           action ==
               CASE tool = "delete" -> "deleting "
                 [] tool = "create" -> "creating directory "
                 [] tool = "list" -> "listing directory "
                 [] tool = "write" -> "writing file "
       IN /\ tool = "delete" => absolutePath \in fs
          /\ tool = "list" => AccessAllowed(relPath)
          /\ log' = log \o calls \o <<Rejected(HandleError(<<action, relPath>>, error)),
                                      Thrown("handleError")>>
    /\ pc' = "threw"
    /\ UNCHANGED <<tool, block, locals, session, rooIgnore, fs, entry>>
    /\ UNCHANGED prompts

\* await cline.say("text", summaryMessage) rejects: pushToolResult is not reached
SayRejects ==
    /\ pc = "executing"
    /\ tool \in {"delete", "create", "write"}
    /\ idx > Len(IF tool = "write" THEN itemsToProcess ELSE relPaths)
    /\ LET text == CASE tool = "delete" -> "Batch deletion completed."
                     [] tool = "create" -> "Batch directory creation completed."
                     [] tool = "write" -> "Batch write operation completed."
       IN log' = log \o <<Rejected(Say("text", Summary(text, results))), Thrown("say")>>
    /\ pc' = "threw"
    /\ UNCHANGED <<tool, block, locals, session, rooIgnore, fs, entry>>
    /\ UNCHANGED prompts

-----------------------------------------------------------------------------

Next ==
    \/ \E b \in PathBlocks : DeleteItemsStart(b)
    \/ \E answer \in BOOLEAN : DeleteItemsDecide(answer)
    \/ \E error \in {NoError, FileNotFound, NoPermissions, BareError} : DeleteItemsItem(error)
    \/ DeleteItemsReport
    \/ \E b \in PathBlocks : CreateDirectoriesStart(b)
    \/ \E answer \in BOOLEAN : CreateDirectoriesDecide(answer)
    \/ \E error \in CreateDirectoryOutcomes : CreateDirectoriesItem(error)
    \/ CreateDirectoriesReport
    \/ \E b \in PathBlocks : ReadFilesStart(b, Undef)
    \/ \E answer \in BOOLEAN : ReadFilesDecide(answer)
    \/ \E o \in PlainOutcomes : ReadFilesItem(o)
    \/ ReadFilesReport
    \/ \E b \in WriteBlocks : WriteFilesStart(b)
    \/ \E answer \in BOOLEAN : WriteFilesDecide(answer)
    \/ \E mk \in CreateDirectoryOutcomes, wr \in WriteFileOutcomes : WriteFilesItem(mk, wr)
    \/ WriteFilesReport
    \/ \E b \in ListBlocks : ListDirectoriesStart(b)
    \/ \E answer \in BOOLEAN : ListDirectoriesDecide(answer)
    \/ \E outcome \in ListFilesOutcomes : ListDirectoriesItem(outcome)
    \/ ListDirectoriesReport
    \/ \E p \in PolicyPaths : PolicyChange(p)

Spec == Init /\ [][Next]_vars

\* readFilesTool alone, with line ranges, settings and every answer of its collaborators
NextRead ==
    \/ \E b \in ReadBlocks, setting \in Settings : ReadFilesStart(b, setting)
    \/ \E answer \in BOOLEAN : ReadFilesDecide(answer)
    \/ \E o \in AllOutcomes : ReadFilesItem(o)
    \/ ReadFilesReport
    \/ \E p \in PolicyPaths : PolicyChange(p)

SpecRead == Init /\ [][NextRead]_vars

\* the five tools with collaborators that may reject
NextFaulty ==
    \/ Next
    \/ AskApprovalRejects
    \/ \E error \in {NoPermissions, BareError} : HandleErrorRejects(error)
    \/ SayRejects

SpecFaulty == Init /\ [][NextFaulty]_vars

\* writeFilesTool alone, on requests of three entries
NextWrite ==
    \/ \E b \in TripleBlocks : WriteFilesStart(b)
    \/ \E answer \in BOOLEAN : WriteFilesDecide(answer)
    \/ \E mk \in CreateDirectoryOutcomes, wr \in WriteFileOutcomes : WriteFilesItem(mk, wr)
    \/ WriteFilesReport
    \/ \E p \in PolicyPaths : PolicyChange(p)

SpecWrite == Init /\ [][NextWrite]_vars

-----------------------------------------------------------------------------
(* Prompt assembly: strings are sequences of tokens; a blank, a line break and
   a placeholder are one token each *)

Whitespace == {" ", "\n"}

RECURSIVE TrimWsStart(_)
TrimWsStart(s) == IF s # <<>> /\ Head(s) \in Whitespace THEN TrimWsStart(Tail(s)) ELSE s

RECURSIVE TrimWsEnd(_)
TrimWsEnd(s) ==
    IF s # <<>> /\ s[Len(s)] \in Whitespace THEN TrimWsEnd(SubSeq(s, 1, Len(s) - 1)) ELSE s

\* String.prototype.trim on a text with line breaks
TrimWs(s) == TrimWsEnd(TrimWsStart(s))

\* Array.prototype.join
RECURSIVE Join(_, _)
Join(parts, sep) ==
    IF parts = <<>> THEN <<>>
    ELSE IF Len(parts) = 1 THEN parts[1]
    ELSE parts[1] \o sep \o Join(Tail(parts), sep)

\* the elements of an array that are not the empty string, in order
RECURSIVE Truthy(_)
Truthy(parts) ==
    IF parts = <<>> THEN <<>>
    ELSE IF Head(parts) = <<>> THEN Truthy(Tail(parts))
    ELSE <<Head(parts)>> \o Truthy(Tail(parts))

\* what fs.readFile finds at a rule file
NoFile == [code |-> "ENOENT", content |-> <<>>]
IsDirectory == [code |-> "EISDIR", content |-> <<>>]
Unreadable == [code |-> "EACCES", content |-> <<>>]
File(content) == [code |-> "ok", content |-> content]

SafeReadFileThrows(f) == f.code \notin {"ok", "ENOENT", "EISDIR"}
SafeReadFile(f) == IF f.code = "ok" THEN TrimWs(f.content) ELSE <<>>

RuleFiles == <<".clinerules", ".cursorrules", ".windsurfrules">>

\* loadRuleFiles: files is the sequence of what is found at the three rule files
RECURSIVE LoadRuleFilesFrom(_, _)
LoadRuleFilesFrom(files, i) ==
    IF i > Len(RuleFiles) THEN <<>>
    ELSE LET content == SafeReadFile(files[i])
         IN  (IF content # <<>>
              THEN <<"\n", "# Rules from ", RuleFiles[i], ":", "\n">> \o content \o <<"\n">>
              ELSE <<>>) \o LoadRuleFilesFrom(files, i + 1)

LoadRuleFiles(files) == LoadRuleFilesFrom(files, 1)

CustomInstructionsHeader ==
    <<"\n", "====", "\n", "\n", "USER'S CUSTOM INSTRUCTIONS", "\n", "\n",
      "The following additional instructions are provided by the user, and should be followed to the best of your ability without interfering with the TOOL USE guidelines.",
      "\n", "\n">>

\* options.language ? `Language Preference: ...` : ""
LanguagePreference(language, languageName) ==
    IF IsFalsy(language) THEN <<>>
    ELSE <<"Language Preference:", "\n", "You should always speak and think in the \"">>
         \o languageName \o <<"\" (">> \o language.s
         \o <<") language unless the user gives you instructions below to do otherwise.">>

\* typeof v === "string" && v.trim() ? `${label}\n${v.trim()}` : ""
LabelledInstructions(label, v) ==
    IF v.t = "string" /\ TrimWs(v.s) # <<>> THEN <<label, "\n">> \o TrimWs(v.s) ELSE <<>>

\* options.rooIgnoreInstructions || ""
RulesRooIgnore(v) == IF IsFalsy(v) THEN <<>> ELSE v.s

\* a call rejects when a rule file cannot be read
AddCustomInstructionsThrows(c) ==
    \/ c.mode # <<>> /\ SafeReadFileThrows(c.modeRuleFile)
    \/ \E i \in 1..Len(c.ruleFiles) : SafeReadFileThrows(c.ruleFiles[i])

AddCustomInstructions(c) ==
    LET languagePreference == LanguagePreference(c.language, c.languageName)
        globalInstructions ==
            LabelledInstructions("Global Instructions:", c.globalCustomInstructions)
        modeSpecificInstructions ==
            LabelledInstructions("Mode-specific Instructions:", c.modeCustomInstructions)
        modeRuleContent == SafeReadFile(c.modeRuleFile)
        rulesModeSpecific ==
            IF c.mode # <<>> /\ modeRuleContent # <<>> /\ TrimWs(modeRuleContent) # <<>>
            THEN <<"# Rules from ", ".clinerules-">> \o c.mode \o <<":", "\n">> \o modeRuleContent
            ELSE <<>>
        rulesRooIgnore == RulesRooIgnore(c.rooIgnoreInstructions)
        genericRuleContent == LoadRuleFiles(c.ruleFiles)
        rulesGeneric == TrimWs(genericRuleContent)
        rules == Truthy(<<rulesModeSpecific, rulesRooIgnore, rulesGeneric>>)
        rulesAll ==
            IF Len(rules) > 0 THEN <<"Rules:", "\n", "\n">> \o Join(rules, <<"\n", "\n">>)
            ELSE <<>>
        sections ==
            Truthy(<<languagePreference, globalInstructions, modeSpecificInstructions,
                     rulesAll>>)
        joinedSections == Join(sections, <<"\n", "\n">>)
    IN  [languagePreference |-> languagePreference,
         globalInstructions |-> globalInstructions,
         modeSpecificInstructions |-> modeSpecificInstructions,
         rulesModeSpecific |-> rulesModeSpecific,
         rulesGeneric |-> rulesGeneric,
         rulesRooIgnore |-> rulesRooIgnore,
         rulesAll |-> rulesAll,
         fullSection |->
            IF joinedSections # <<>> THEN CustomInstructionsHeader \o joinedSections
            ELSE <<>>]

\* v || ""
OrEmpty(v) == IF IsFalsy(v) THEN <<>> ELSE v.s

\* the replacement patterns String.prototype.replace expands in its second argument:
\* $$ inserts a dollar sign, $& inserts the matched text
RECURSIVE ExpandReplacement(_, _)
ExpandReplacement(value, matched) ==
    IF value = <<>> THEN <<>>
    ELSE (IF Head(value) = "$$" THEN <<"$">>
          ELSE IF Head(value) = "$&" THEN <<matched>>
          ELSE <<Head(value)>>) \o ExpandReplacement(Tail(value), matched)

\* finalPrompt.replace(/\{\{NAME\}\}/g, value)
RECURSIVE Replace(_, _, _)
Replace(s, placeholder, value) ==
    IF s = <<>> THEN <<>>
    ELSE (IF Head(s) = placeholder THEN ExpandReplacement(value, placeholder)
          ELSE <<Head(s)>>) \o Replace(Tail(s), placeholder, value)

\* the text a section generator of ./sections returns
Section(name) == <<"====", "\n", name>>

\* the placeholders and their values, in the order of the substitutions
Substitutions(roleDefinition, mcpServersSection, customInstructions) ==
    << <<"{{ROLE_DEFINITION}}", roleDefinition>>,
       <<"{{SHARED_TOOL_USE_SECTION}}", Section("sharedToolUseSection")>>,
       <<"{{TOOL_DESCRIPTIONS}}", Section("toolDescriptions")>>,
       <<"{{TOOL_USE_GUIDELINES}}", Section("toolUseGuidelines")>>,
       <<"{{MCP_SERVERS_SECTION}}", mcpServersSection>>,
       <<"{{CAPABILITIES_SECTION}}", Section("capabilitiesSection")>>,
       <<"{{MODES_SECTION}}", Section("modesSection")>>,
       <<"{{RULES_SECTION}}", Section("rulesComponents.fullSection")>>,
       <<"{{RULES_BASE_DIR}}", Section("rulesComponents.baseDir")>>,
       <<"{{RULES_RELATIVE_PATHS}}", Section("rulesComponents.relativePaths")>>,
       <<"{{RULES_NO_CD}}", Section("rulesComponents.noCd")>>,
       <<"{{RULES_NO_HOME_CHAR}}", Section("rulesComponents.noHomeChar")>>,
       <<"{{RULES_EXECUTE_COMMAND_CONTEXT}}", Section("rulesComponents.executeCommandContext")>>,
       <<"{{RULES_SEARCH_FILES_USAGE}}", Section("rulesComponents.searchFilesUsage")>>,
       <<"{{RULES_NEW_PROJECT_STRUCTURE}}", Section("rulesComponents.newProjectStructure")>>,
       <<"{{RULES_EDITING_TOOLS_AVAILABLE}}", Section("rulesComponents.availableTools")>>,
       <<"{{RULES_EDITING_INSERT_CONTENT_DETAIL}}", Section("rulesComponents.insertContentDetail")>>,
       <<"{{RULES_EDITING_SEARCH_REPLACE_DETAIL}}", Section("rulesComponents.searchReplaceDetail")>>,
       <<"{{RULES_EDITING_PREFER_OTHER_TOOLS}}", Section("rulesComponents.preferOtherTools")>>,
       <<"{{RULES_EDITING_WRITE_TO_FILE_DETAIL}}", Section("rulesComponents.writeToFileDetail")>>,
       <<"{{RULES_MODE_RESTRICTIONS}}", Section("rulesComponents.modeRestrictions")>>,
       <<"{{RULES_PROJECT_CONTEXT}}", Section("rulesComponents.projectContext")>>,
       <<"{{RULES_CODE_CHANGE_CONTEXT}}", Section("rulesComponents.codeChangeContext")>>,
       <<"{{RULES_MINIMIZE_QUESTIONS}}", Section("rulesComponents.minimizeQuestions")>>,
       <<"{{RULES_ASK_FOLLOWUP_USAGE}}", Section("rulesComponents.askFollowupUsage")>>,
       <<"{{RULES_EXECUTE_COMMAND_OUTPUT}}", Section("rulesComponents.executeCommandOutput")>>,
       <<"{{RULES_USER_PROVIDED_CONTENT}}", Section("rulesComponents.userProvidedContent")>>,
       <<"{{RULES_GOAL_ORIENTED}}", Section("rulesComponents.goalOriented")>>,
       <<"{{RULES_BROWSER_ACTION_USAGE}}", Section("rulesComponents.browserActionUsage")>>,
       <<"{{RULES_NO_CONVERSATIONAL_ENDINGS}}", Section("rulesComponents.noConversationalEndings")>>,
       <<"{{RULES_NO_CONVERSATIONAL_STARTERS}}", Section("rulesComponents.noConversationalStarters")>>,
       <<"{{RULES_IMAGE_USAGE}}", Section("rulesComponents.imageUsage")>>,
       <<"{{RULES_ENV_DETAILS_USAGE}}", Section("rulesComponents.envDetailsUsage")>>,
       <<"{{RULES_ACTIVE_TERMINALS}}", Section("rulesComponents.activeTerminals")>>,
       <<"{{RULES_MCP_OPERATIONS}}", Section("rulesComponents.mcpOperations")>>,
       <<"{{RULES_WAIT_FOR_CONFIRMATION}}", Section("rulesComponents.waitForConfirmation")>>,
       <<"{{SYSTEM_INFO_SECTION}}", Section("systemInfoComponents.fullSection")>>,
       <<"{{SYSTEM_INFO_OS}}", Section("systemInfoComponents.os")>>,
       <<"{{SYSTEM_INFO_SHELL}}", Section("systemInfoComponents.shell")>>,
       <<"{{SYSTEM_INFO_HOME_DIR}}", Section("systemInfoComponents.homeDir")>>,
       <<"{{SYSTEM_INFO_CWD}}", Section("systemInfoComponents.cwd")>>,
       <<"{{SYSTEM_INFO_ENV_DETAILS_EXPLANATION}}",
         Section("systemInfoComponents.envDetailsExplanation")>>,
       <<"{{OBJECTIVE_SECTION}}", Section("objectiveSection")>>,
       <<"{{CUSTOM_INSTRUCTIONS_SECTION}}", customInstructions.fullSection>>,
       <<"{{CUSTOM_INSTRUCTIONS_LANGUAGE_PREFERENCE}}", customInstructions.languagePreference>>,
       <<"{{CUSTOM_INSTRUCTIONS_GLOBAL}}", customInstructions.globalInstructions>>,
       <<"{{CUSTOM_INSTRUCTIONS_MODE_SPECIFIC}}", customInstructions.modeSpecificInstructions>>,
       <<"{{CUSTOM_INSTRUCTIONS_RULES_MODE_SPECIFIC}}", customInstructions.rulesModeSpecific>>,
       <<"{{CUSTOM_INSTRUCTIONS_RULES_GENERIC}}", customInstructions.rulesGeneric>>,
       <<"{{CUSTOM_INSTRUCTIONS_RULES_ROOIGNORE}}", customInstructions.rulesRooIgnore>>,
       <<"{{CUSTOM_INSTRUCTIONS_RULES_ALL}}", customInstructions.rulesAll>> >>

\* the substitutions i.. applied one after the other to finalPrompt
RECURSIVE PerformSubstitutions(_, _, _)
PerformSubstitutions(finalPrompt, substitutions, i) ==
    IF i > Len(substitutions) THEN finalPrompt
    ELSE PerformSubstitutions(Replace(finalPrompt, substitutions[i][1], substitutions[i][2]),
                              substitutions, i + 1)

\* promptComponent?.roleDefinition || currentMode.roleDefinition
RoleDefinition(c) ==
    IF IsFalsy(c.customRoleDefinition) THEN c.modeRoleDefinition ELSE c.customRoleDefinition.s

\* the mcp servers section is generated for modes of the mcp group only
McpServersSection(c) == IF c.mcpGroup THEN Section("mcpServersSection") ELSE <<>>

\* the arguments SYSTEM_PROMPT and generatePrompt pass to addCustomInstructions
CustomInstructionsCall(c) ==
    [fn |-> "addCustomInstructions",
     modeCustomInstructions |-> Str(OrEmpty(c.modeCustomInstructions)),
     globalCustomInstructions |-> Str(OrEmpty(c.globalCustomInstructions)),
     mode |-> c.mode,
     language |-> c.language,
     languageName |-> c.languageName,
     rooIgnoreInstructions |-> c.rooIgnoreInstructions,
     modeRuleFile |-> c.modeRuleFile,
     ruleFiles |-> c.ruleFiles]

GeneratePrompt(c) ==
    Join(<<RoleDefinition(c),
           Section("sharedToolUseSection"),
           Section("toolDescriptions"),
           Section("toolUseGuidelines"),
           McpServersSection(c),
           Section("capabilitiesSection"),
           Section("modesSection"),
           Section("rulesComponents.fullSection"),
           Section("systemInfoComponents.fullSection"),
           Section("objectiveSection"),
           AddCustomInstructions(CustomInstructionsCall(c)).fullSection>>, <<"\n", "\n">>)

\* what a call resolves to: a value, or a rejection
Returned(fn, value) == [fn |-> fn, threw |-> FALSE, value |-> value]
Threw(fn) == [fn |-> fn, threw |-> TRUE, value |-> <<>>]

SYSTEM_PROMPT(c) ==
    IF ~c.context THEN Threw("SYSTEM_PROMPT")
    ELSE IF AddCustomInstructionsThrows(CustomInstructionsCall(c)) THEN Threw("SYSTEM_PROMPT")
    ELSE IF ~IsFalsy(c.fileCustomSystemPrompt)
    THEN Returned("SYSTEM_PROMPT",
            PerformSubstitutions(c.fileCustomSystemPrompt.s,
                Substitutions(RoleDefinition(c), McpServersSection(c),
                              AddCustomInstructions(CustomInstructionsCall(c))), 1))
    ELSE Returned("SYSTEM_PROMPT", GeneratePrompt(c))

NullString == [t |-> "null", s |-> <<>>]

\* the inputs of the calls
InstructionTexts == {Undefined, Str(<<>>), Str(<<" ", "\n">>), Str(<<" ", "be brief", "\n">>)}
Languages == {<<Undefined, <<>>>>, <<Str(<<>>), <<>>>>, <<Str(<<"fr">>), <<"French">>>>,
              <<Str(<<"xx">>), <<"xx">>>>}
RooIgnoreTexts == {Undefined, Str(<<>>), Str(<<" ">>), Str(<<"# .rooignore">>)}
ModeRuleFiles == {NoFile, Unreadable, File(<<"\n">>), File(<<"mode rule", "\n">>)}
GenericRuleFiles ==
    {<<NoFile, NoFile, NoFile>>,
     <<File(<<" ">>), IsDirectory, NoFile>>,
     <<File(<<"cline rule", "\n">>), NoFile, File(<<" ", "windsurf rule">>)>>,
     <<NoFile, File(<<"cursor rule">>), Unreadable>>}
Modes == {<<>>, <<"code">>}

AddCustomInstructionsCalls ==
    {[fn |-> "addCustomInstructions",
      modeCustomInstructions |-> m,
      globalCustomInstructions |-> g,
      mode |-> mode,
      language |-> l[1],
      languageName |-> l[2],
      rooIgnoreInstructions |-> r,
      modeRuleFile |-> mf,
      ruleFiles |-> gf] :
        m \in InstructionTexts, g \in InstructionTexts, mode \in Modes, l \in Languages,
        r \in RooIgnoreTexts, mf \in ModeRuleFiles, gf \in GenericRuleFiles}

Templates ==
    {NullString, Str(<<>>),
     Str(<<"Plain prompt">>),
     Str(<<"Custom Role: ", "{{ROLE_DEFINITION}}", "\n", "Unknown: ", "{{UNKNOWN_PLACEHOLDER}}">>),
     Str(<<"{{CUSTOM_INSTRUCTIONS_GLOBAL}}", "\n", "{{CUSTOM_INSTRUCTIONS_GLOBAL}}">>),
     Str(<<"{{OBJECTIVE_SECTION}}", "{{ROLE_DEFINITION}}", "{{MCP_SERVERS_SECTION}}">>),
     Str(<<"{{CUSTOM_INSTRUCTIONS_SECTION}}", "{{CUSTOM_INSTRUCTIONS_RULES_ALL}}",
           "{{RULES_SECTION}}">>)}
CustomRoleDefinitions ==
    {Undefined,
     Str(<<"You are a reviewer">>),
     Str(<<"You explain ", "{{OBJECTIVE_SECTION}}">>),
     Str(<<"You explain ", "{{UNKNOWN_PLACEHOLDER}}">>)}
GlobalTexts == {Undefined, Str(<<"be brief">>), Str(<<"prices in ", "$$">>), Str(<<"keep ", "$&">>)}

SystemPromptCalls ==
    {[fn |-> "SYSTEM_PROMPT",
      context |-> context,
      fileCustomSystemPrompt |-> t,
      customRoleDefinition |-> role,
      modeRoleDefinition |-> <<"You are Roo">>,
      mcpGroup |-> mcp,
      modeCustomInstructions |-> Undefined,
      globalCustomInstructions |-> g,
      mode |-> <<"code">>,
      language |-> Str(<<"fr">>),
      languageName |-> <<"French">>,
      rooIgnoreInstructions |-> r,
      modeRuleFile |-> mf,
      ruleFiles |-> <<NoFile, NoFile, NoFile>>] :
        context \in BOOLEAN, t \in Templates, role \in CustomRoleDefinitions,
        mcp \in BOOLEAN, g \in GlobalTexts, r \in {Undefined, Str(<<"# .rooignore">>)},
        mf \in {NoFile, Unreadable}}

\* a prompt builder is called while no tool runs
InitPrompt ==
    /\ Idle
    /\ promptCall \in AddCustomInstructionsCalls \cup SystemPromptCalls
    /\ promptResult = NoResult

AddCustomInstructionsReturns ==
    /\ promptCall.fn = "addCustomInstructions"
    /\ promptResult = NoResult
    /\ promptResult' =
        IF AddCustomInstructionsThrows(promptCall) THEN Threw("addCustomInstructions")
        ELSE Returned("addCustomInstructions", AddCustomInstructions(promptCall))
    /\ UNCHANGED <<tool, block, pc, locals, session, rooIgnore, fs, log, entry, promptCall>>

SystemPromptReturns ==
    /\ promptCall.fn = "SYSTEM_PROMPT"
    /\ promptResult = NoResult
    /\ promptResult' = SYSTEM_PROMPT(promptCall)
    /\ UNCHANGED <<tool, block, pc, locals, session, rooIgnore, fs, log, entry, promptCall>>

\* the prompt builders alone
NextPrompt ==
    \/ AddCustomInstructionsReturns
    \/ SystemPromptReturns

SpecPrompt == InitPrompt /\ [][NextPrompt]_vars

-----------------------------------------------------------------------------
(* Properties of an invocation *)

\* the calls that change the filesystem
IsMutation(e) == e.ev = "fs" /\ e.a \in {"writeFile", "createDirectory", "delete"}

\* the operations of the execution loops (fileExistsAtPath is the probe made
\* by writeFilesTool while it builds the approval request)
IsItemOperation(e) == e.ev = "fs" /\ e.a # "fileExistsAtPath"

\* position of the approval request in the call log, 0 when there is none
ApprovalIndex ==
    IF \E i \in 1..Len(log) : log[i].ev = "askApproval"
    THEN CHOOSE i \in 1..Len(log) : log[i].ev = "askApproval"
    ELSE 0

\* C1: in writeFilesTool, deleteItemsTool and createDirectoriesTool every
\* writeFile, createDirectory and delete call comes after the askApproval call
\* of the same invocation, which resolved to true; on the validation-reject,
\* policy-reject and partial-announce paths the filesystem is what it was.
C1_MutationOnlyAfterApproval ==
    tool \in {"write", "delete", "create"} =>
        /\ \A i \in 1..Len(log) :
               IsMutation(log[i]) =>
                   /\ didApprove = "yes"
                   /\ ApprovalIndex # 0
                   /\ ApprovalIndex < i
        /\ didApprove # "yes" => fs = InitialFs /\ ~didEditFile
        /\ pc \in {"rejected", "announced"} =>
               /\ didApprove = "none"
               /\ \A i \in 1..Len(log) : ~IsMutation(log[i])

\* an approved write that created a directory and wrote a file
C1_Witness ==
    /\ tool = "write"
    /\ didApprove = "yes"
    /\ \E i, j \in 1..Len(log) :
           /\ ApprovalIndex < i
           /\ i < j
           /\ log[i].ev = "fs" /\ log[i].a = "createDirectory"
           /\ log[j].ev = "fs" /\ log[j].a = "writeFile"
    /\ fs # InitialFs

\* C2: for each of the five tools, when the approval request resolves to false
\* no per-item operation is invoked, pushToolResult is never called and
\* handleError is never called: the request is the last call of the invocation.
C2_DenialStopsEverything ==
    didApprove = "no" =>
        /\ pc = "abandoned"
        /\ \A i \in 1..Len(log) : ~IsItemOperation(log[i])
        /\ Len(Calls("pushToolResult")) = 0
        /\ Len(Calls("handleError")) = 0
        /\ log[Len(log)].ev = "askApproval"
        /\ results = <<>>
        /\ fs = InitialFs

\* a denied listing whose request named an existing path
C2_Witness ==
    /\ tool = "list"
    /\ didApprove = "no"
    /\ pc = "abandoned"
    /\ relPaths # <<>>
\* the paths of the filtered items, in input order
FilteredPaths ==
    IF tool = "write" THEN Map(itemsToProcess, LAMBDA item : item.path) ELSE relPaths

\* the call by which the loop starts the operation on an item: the delete,
\* createDirectory or listFiles call, the first call on a file to read, and
\* for a file to write the writeFile call or the createDirectory call that failed
IsAttempt(e) ==
    /\ e.ev = "fs"
    /\ \/ e.a \in {"delete", "listFiles", "countFileLines", "writeFile"}
       \/ e.a = "createDirectory" /\ (tool = "create" \/ e.c # NoError)

\* the access re-check of the loops of readFilesTool and listDirectoriesTool
\* answering no: the item is recorded as an error without its operation
IsDenial(e) == e.ev = "validateAccess" /\ e.c = FALSE

\* the call e is made for the item of path p
IsAbout(e, p) ==
    IF e.ev = "validateAccess" THEN e.b = p
    ELSE IF e.a = "createDirectory" /\ tool = "write" THEN e.b = Dirname(Resolve(p))
    ELSE e.b = Resolve(p)

\* the calls made after the approval request
AfterApproval == SubSeq(log, ApprovalIndex + 1, Len(log))

\* the report pushed at the end has one element per filtered item, in order
ReportCoversEveryItem ==
    LET last == log[Len(log)]
    IN /\ last.ev = "pushToolResult"
       /\ last.a = "report"
       /\ Len(last.b.children) = Len(FilteredPaths)
       /\ \A k \in 1..Len(FilteredPaths) : last.b.children[k].path = FilteredPaths[k]

\* C3 as stated: once the batch is approved the underlying operation is
\* attempted for every filtered item, whatever failed before it, and the
\* report has an entry for every item.
C3_OperationForEveryItem ==
    pc = "done" =>
        LET attempts == SelectSeq(AfterApproval, IsAttempt)
        IN /\ Len(attempts) = Len(FilteredPaths)
           /\ \A k \in 1..Len(attempts) : IsAbout(attempts[k], FilteredPaths[k])
           /\ ReportCoversEveryItem

\* C3 (amended): once the batch is approved every filtered item is processed
\* in order, whatever failed before it: its operation is attempted, except
\* that readFilesTool and listDirectoriesTool record an error without the
\* operation for an item whose access re-check is denied; every processed
\* item has a result, and the report has an entry for every item.
C3_FailureIsolation ==
    /\ pc = "executing" => Len(results) = idx - 1 /\ idx <= Len(FilteredPaths) + 1
    /\ pc = "done" =>
        LET steps == SelectSeq(AfterApproval, LAMBDA e : IsAttempt(e) \/ IsDenial(e))
        IN /\ didApprove = "yes"
           /\ Len(results) = Len(FilteredPaths)
           /\ Len(steps) = Len(FilteredPaths)
           /\ \A k \in 1..Len(steps) :
                  /\ IsAbout(steps[k], FilteredPaths[k])
                  /\ IsDenial(steps[k]) =>
                         /\ tool \in {"read", "list"}
                         /\ results[k].content = NoMsg
                         /\ results[k].error = RooIgnoreError(<<FilteredPaths[k]>>)
           /\ ReportCoversEveryItem

\* a listing whose first directory was refused by the re-check and whose
\* second directory was listed all the same
C3_Witness ==
    /\ tool = "list"
    /\ pc = "done"
    /\ Len(results) = 2
    /\ results[1].error = RooIgnoreError(<<relPaths[1]>>)
    /\ results[2].content # NoMsg
    /\ IsDenial(AfterApproval[2])
\* the path string, as written in the request, of the k-th filtered item: the
\* k-th entry of paths that is a string with something else than blanks, and
\* for writeFilesTool the path of the k-th entry of items (the items it
\* processes are the leading entries of the array)
OriginalPath(k) ==
    IF tool = "write" THEN block.items.a[k].path.s
    ELSE SelectSeq(block.paths.a, LAMBDA p : p.t = "string" /\ Trim(p.s) # <<>>)[k].s

\* C4 as stated: in an approved invocation there are as many item results as
\* filtered items, and the path of the i-th result is the original path
\* string of the i-th filtered item.
C4_OriginalPathStrings ==
    pc = "done" =>
        /\ Len(results) = Len(FilteredPaths)
        /\ \A k \in 1..Len(results) : results[k].path = OriginalPath(k)

\* C4 (amended): in an approved invocation the item results follow the
\* filtered items in order and number, and the path of the i-th result is the
\* relative path string of the i-th filtered item, never the resolved path:
\* the string of the request itself for the path-based tools, that string
\* without its surrounding blanks for writeFilesTool.
C4_ResultsFollowItems ==
    /\ pc \in {"executing", "done"} =>
           /\ Len(results) <= Len(FilteredPaths)
           /\ \A k \in 1..Len(results) :
                  /\ results[k].path = FilteredPaths[k]
                  /\ results[k].path # Resolve(FilteredPaths[k])
                  /\ results[k].path =
                         IF tool = "write" THEN Trim(OriginalPath(k)) ELSE OriginalPath(k)
    /\ pc = "done" => Len(results) = Len(FilteredPaths)

\* a finished write of an item whose path came with a leading blank
C4_Witness ==
    /\ tool = "write"
    /\ pc = "done"
    /\ Len(results) = 2
    /\ OriginalPath(1) = PaddedA
    /\ results[1].path = PathA
    /\ results[2].path = OriginalPath(2)
\* the policy answered no before any approval was requested
DeniedAtPreCheck ==
    \E i \in 1..Len(log) :
        /\ IsDenial(log[i])
        /\ ApprovalIndex = 0 \/ i < ApprovalIndex

\* the paths that the rejection message of the tool names
NamedPaths ==
    LET pushed == Calls("pushToolResult")[1].b
    IN IF pushed.kind = "toolError" /\ pushed.msg.text = "rooIgnoreError"
       THEN {pushed.msg.arg[k] : k \in 1..Len(pushed.msg.arg)}
       ELSE {}

\* C5: in the read, write, delete and list tools, when the policy denies at
\* least one filtered path at the pre-approval check the whole batch is
\* rejected: askApproval is never called, no per-item operation is invoked
\* for any path, and exactly one error result is pushed, which names every
\* disallowed path.
C5_PolicyRejectsWholeBatch ==
    (tool \in {"read", "write", "delete", "list"} /\ DeniedAtPreCheck) =>
        /\ pc = "rejected"
        /\ Len(Calls("askApproval")) = 0
        /\ Len(Calls("ask")) = 0
        /\ Len(Calls("fs")) = 0
        /\ Len(Calls("handleError")) = 0
        /\ results = <<>>
        /\ fs = InitialFs
        /\ Len(Calls("pushToolResult")) = 1
        /\ \A k \in 1..Len(FilteredPaths) :
               ~AccessAllowed(FilteredPaths[k]) =>
                   GetReadablePath(FilteredPaths[k]) \in NamedPaths
        /\ \A k \in 1..Len(FilteredPaths) :
               AccessAllowed(FilteredPaths[k]) =>
                   GetReadablePath(FilteredPaths[k]) \notin NamedPaths

\* a request for an ignored and an allowed path, rejected as a whole
C5_Witness ==
    /\ tool \in {"read", "list"}
    /\ DeniedAtPreCheck
    /\ pc = "rejected"
    /\ Len(relPaths) = 2
    /\ ~AccessAllowed(relPaths[1])
    /\ AccessAllowed(relPaths[2])
    /\ GetReadablePath(relPaths[1]) \in NamedPaths
\* C6: in deleteItemsTool an item whose delete fails with a not-found
\* condition is reported with status error and the message "File or directory
\* not found." without any handleError call for it; an item whose delete
\* fails with another error is reported with status error and handleError is
\* called for it exactly once.
C6_NotFoundIsNotForwarded ==
    tool = "delete" =>
        LET deletes == FsCalls("delete")
            forwarded == Calls("handleError")
            otherFailures == SelectSeq(deletes, LAMBDA e : e.c # NoError /\ e.c # FileNotFound)
        IN /\ Len(deletes) = Len(results)
           /\ \A k \in 1..Len(deletes) :
                  /\ deletes[k].c = FileNotFound =>
                         /\ results[k].status = "error"
                         /\ results[k].error = Msg("File or directory not found.", <<>>)
                  /\ (deletes[k].c # NoError /\ deletes[k].c # FileNotFound) =>
                         /\ results[k].status = "error"
                         /\ results[k].error # Msg("File or directory not found.", <<>>)
                  /\ deletes[k].c = NoError => results[k].status = "success"
           /\ \A i \in 1..Len(log) :
                  (log[i].ev = "fs" /\ log[i].a = "delete") =>
                      IF log[i].c # NoError /\ log[i].c # FileNotFound
                      THEN /\ i < Len(log)
                           /\ log[i + 1].ev = "handleError"
                           /\ log[i + 1].b = log[i].c
                      ELSE i = Len(log) \/ log[i + 1].ev # "handleError"
           /\ Len(forwarded) = Len(otherFailures)

\* a deletion that was refused for one item and found nothing for the other
C6_Witness ==
    /\ tool = "delete"
    /\ pc = "done"
    /\ Len(results) = 2
    /\ FsCalls("delete")[1].c = NoPermissions
    /\ FsCalls("delete")[2].c = FileNotFound
    /\ results[2].error = Msg("File or directory not found.", <<>>)
    /\ Len(Calls("handleError")) = 1
\* the name under which each path-based tool reports a missing parameter
ToolName ==
    CASE tool = "read" -> "read_files"
      [] tool = "delete" -> "delete_items"
      [] tool = "create" -> "create_directories"
      [] tool = "list" -> "list_directories"
      [] OTHER -> "write_files"

\* the texts passed for a missing paths parameter: each begins with
\* "Expected a non-empty array"
ExpectedNonEmptyArray == {ReadMissingDetail, DeleteMissingDetail, CreateMissingDetail,
                          ListMissingDetail}

\* nothing but the two reporting calls was made, and nothing was touched
OnlyReported ==
    /\ pc = "rejected"
    /\ Len(log) = 2
    /\ log[2].ev = "pushToolResult"
    /\ Len(Calls("validateAccess")) = 0
    /\ Len(Calls("askApproval")) = 0
    /\ Len(Calls("ask")) = 0
    /\ Len(Calls("fs")) = 0
    /\ results = <<>>
    /\ fs = InitialFs

\* C7: in the path-based tools (read, delete, create, list) a paths parameter
\* that is missing, not an array or an empty array yields the
\* missing-parameter error with the text "Expected a non-empty array ...",
\* and a non-empty array whose entries are all empty, blank or not strings
\* yields the error "Invalid 'paths' parameter: No valid paths provided.";
\* in both cases no policy check, approval request or filesystem operation is
\* performed.
C7_TwoParameterErrors ==
    tool \in {"read", "delete", "create", "list"} =>
        /\ (IsFalsy(block.paths) \/ block.paths.t # "array" \/ block.paths.a = <<>>) =>
               /\ OnlyReported
               /\ log[1] = SayMissingParam(ToolName, "paths")
               /\ log[2].b.kind = "missingParam"
               /\ log[2].b.msg.text \in ExpectedNonEmptyArray
               /\ log[2].b.msg.arg = <<ToolName, "paths">>
        /\ (/\ block.paths.t = "array"
            /\ block.paths.a # <<>>
            /\ \A k \in 1..Len(block.paths.a) :
                   block.paths.a[k].t # "string" \/ Trim(block.paths.a[k].s) = <<>>) =>
               /\ OnlyReported
               /\ log[1].ev = "say"
               /\ log[2].b = ToolError(Msg(NoValidPathsError, <<>>))
               /\ log[2].b.msg.text \notin ExpectedNonEmptyArray

\* a read request whose paths are an empty string and a blank one
C7_Witness ==
    /\ tool = "read"
    /\ pc = "rejected"
    /\ block.paths = ArrayOf(<<Str(Empty), Str(Blank)>>)
    /\ log[2].b = ToolError(Msg(NoValidPathsError, <<>>))
\* start_line and end_line of the request both parse as integers, and the
\* first is the greater
InvertedRange ==
    /\ ~IsFalsy(block.start_line)
    /\ ~IsFalsy(block.end_line)
    /\ ~ParseInt(block.start_line.s).nan
    /\ ~ParseInt(block.end_line.s).nan
    /\ ParseInt(block.start_line.s).n > ParseInt(block.end_line.s).n

\* C8: readFilesTool rejects every request whose start_line and end_line both
\* parse as integers with start_line > end_line: it pushes the error "Invalid
\* line range: start_line > end_line." once for the whole batch and calls
\* neither the approval request nor any read, line-count or extraction
\* collaborator.
C8_InvertedRangeRejected ==
    (tool = "read" /\ FilteredPaths # <<>> /\ InvertedRange) =>
        /\ pc = "rejected"
        /\ Len(Calls("pushToolResult")) = 1
        /\ Calls("pushToolResult")[1].b =
               ToolError(Msg("Invalid line range: start_line > end_line.", <<>>))
        /\ Len(Calls("askApproval")) = 0
        /\ Len(Calls("ask")) = 0
        /\ Len(Calls("fs")) = 0
\* the calls of one reading collaborator on one file
CallsOn(op, abs) ==
    SelectSeq(log, LAMBDA e : /\ e.ev = "fs"
                              /\ e.a = op
                              /\ (IF op = "readLines" THEN e.b[1] ELSE e.b) = abs)

\* the <content> block of the k-th file of the pushed report
ReportedContent(k) == log[Len(log)].b.children[k].content

\* C9: in readFilesTool with no explicit line range, for a non-binary file
\* whose line count T exceeds the configured maximum N (N >= 0), only the
\* first N lines are read (readLines(N-1, 0) when N > 0, nothing when N = 0),
\* the content of the item carries the trailer "Showing only N of T total
\* lines", and the outline is appended iff the outline collaborator returned
\* one; when T <= N the file is read whole and carries no trailer.
C9_TruncationAtMaximum ==
    (tool = "read" /\ pc \in {"executing", "done"} /\ ~range.isRangeRead) =>
        \A k \in 1..Len(results) :
            LET abs == Resolve(relPaths[k])
                counted == CallsOn("countFileLines", abs)
                T == IF counted[1].c = CountFailed THEN 0 ELSE counted[1].c
                N == maxReadFileLine
                outline == CallsOn("parseSourceCodeDefinitionsForFile", abs)
                r == results[k]
                trailer == <<Msg("Showing only of total lines", <<N, T>>)>>
            IN (/\ Len(counted) = 1
                /\ CallsOn("isBinaryFile", abs)[1].c # "yes"
                /\ N >= 0) =>
                   IF T > N
                   THEN /\ Len(CallsOn("extractTextFromFile", abs)) = 0
                        /\ Len(outline) = 1
                        /\ IF N > 0
                           THEN /\ Len(CallsOn("readLines", abs)) = 1
                                /\ CallsOn("readLines", abs)[1].b =
                                       <<abs, Defined(N - 1), Defined(0)>>
                           ELSE Len(CallsOn("readLines", abs)) = 0
                        /\ r.content # NoMsg =>
                               /\ r.isTruncated
                               /\ r.totalLines = T
                               /\ (r.sourceCodeDef # <<>>) <=> (outline[1].c = "some")
                               /\ pc = "done" =>
                                      /\ Len(ReportedContent(k)) = 1
                                      /\ ReportedContent(k)[1].trailer =
                                             IF outline[1].c = "some"
                                             THEN trailer \o <<"definitions">>
                                             ELSE trailer
                   ELSE /\ Len(CallsOn("extractTextFromFile", abs)) = 1
                        /\ Len(CallsOn("readLines", abs)) = 0
                        /\ Len(outline) = 0
                        /\ r.content # NoMsg =>
                               /\ ~r.isTruncated
                               /\ pc = "done" =>
                                      /\ Len(ReportedContent(k)) = 1
                                      /\ ReportedContent(k)[1].trailer = <<>>

\* a file of 600 lines read under the default maximum of 500, with an outline
C9_Witness ==
    /\ tool = "read"
    /\ pc = "done"
    /\ ~range.isRangeRead
    /\ maxReadFileLine = DefaultMaxReadFileLine
    /\ results[1].content # NoMsg
    /\ results[1].isTruncated
    /\ results[1].totalLines = 600
    /\ ReportedContent(1)[1].trailer =
           <<Msg("Showing only of total lines", <<500, 600>>), "definitions">>
\* the entry of items is an object with a usable path and a string content
WellFormed(inputItem) ==
    /\ inputItem.t = "object"
    /\ inputItem.path.t = "string"
    /\ Trim(inputItem.path.s) # <<>>
    /\ inputItem.content.t = "string"

\* C10: in writeFilesTool an item whose content is the empty string is a
\* valid item: no validation error is raised for it, it is kept with its
\* empty content, and after approval its writeFile call carries a payload of
\* length zero and its result is success (an error only when the filesystem
\* call itself failed).
C10_EmptyContentIsValid ==
    (tool = "write" /\ block.items.t = "array") =>
        LET input == block.items.a
            attempts == SelectSeq(AfterApproval, IsAttempt)
        IN /\ \A i \in 1..Len(input) :
                  (WellFormed(input[i]) /\ input[i].content.s = <<>>) =>
                      /\ \A e \in 1..Len(validationErrors) :
                             validationErrors[e].index # i - 1
                      /\ (pc # "threw" /\ \A j \in 1..i : WellFormed(input[j])) =>
                             /\ i <= Len(itemsToProcess)
                             /\ itemsToProcess[i].path = Trim(input[i].path.s)
                             /\ itemsToProcess[i].content = Str(<<>>)
           /\ \A k \in 1..Len(results) :
                  itemsToProcess[k].content = Str(<<>>) =>
                      /\ attempts[k].a = "writeFile" =>
                             /\ Len(attempts[k].c.bytes) = 0
                             /\ attempts[k].c.error = NoError <=> results[k].status = "success"
                      /\ attempts[k].a = "createDirectory" => results[k].status = "error"
                      /\ results[k].status = "success" => attempts[k].a = "writeFile"

\* an approved write of an item with empty content that went well
C10_Witness ==
    /\ tool = "write"
    /\ pc = "done"
    /\ itemsToProcess[1].content = Str(<<>>)
    /\ results[1].status = "success"
    /\ \E i \in 1..Len(log) :
           /\ log[i].ev = "fs"
           /\ log[i].a = "writeFile"
           /\ log[i].b = Resolve(itemsToProcess[1].path)
           /\ log[i].c.bytes = <<>>
\* some entry of items is not an object with a usable path and a string content
HasMalformedItem ==
    /\ block.items.t = "array"
    /\ \E i \in 1..Len(block.items.a) : ~WellFormed(block.items.a[i])

\* C11: in writeFilesTool, when any entry of items is malformed (not an
\* object, path missing or blank, content not a string), at whatever position,
\* the invocation reports a parameter error before any policy check or
\* approval request and the batch never starts: no writeFile or
\* createDirectory call is made.
C11_MalformedItemRejectsBatch ==
    (tool = "write" /\ HasMalformedItem) =>
        /\ pc = "rejected"
        /\ Len(Calls("pushToolResult")) = 1
        /\ Calls("pushToolResult")[1].b.kind = "toolError"
        /\ Len(Calls("validateAccess")) = 0
        /\ Len(Calls("askApproval")) = 0
        /\ Len(Calls("ask")) = 0
        /\ Len(Calls("fs")) = 0
        /\ fs = InitialFs
\* the well-formed entries of items, in input order, as {path, content} items
WellFormedItems ==
    Map(SelectSeq(block.items.a, WellFormed),
        LAMBDA inputItem : [path |-> Trim(inputItem.path.s), content |-> inputItem.content])

\* C12: in writeFilesTool, whenever an invocation proceeds to the approval
\* request, the items shown for approval and then processed are exactly the
\* well-formed items of the input, in input order: no well-formed item is
\* dropped, wherever the malformed items are.
C12_NoWellFormedItemDropped ==
    (tool = "write" /\ ApprovalIndex # 0) =>
        /\ itemsToProcess = WellFormedItems
        /\ Map(approvalContent.paths, LAMBDA shown : shown.path)
               = Map(WellFormedItems, LAMBDA item : GetReadablePath(item.path))
        /\ pc = "done" =>
               Map(results, LAMBDA r : r.path) = Map(WellFormedItems, LAMBDA item : item.path)
\* the paths parameter holds at least one non-blank string
HasUsablePath ==
    /\ block.paths.t = "array"
    /\ \E i \in 1..Len(block.paths.a) :
           block.paths.a[i].t = "string" /\ Trim(block.paths.a[i].s) # <<>>

\* the line range of the request is absent or made of integers in order
RangeIsValid ==
    /\ IsFalsy(block.start_line) \/ ~ParseInt(block.start_line.s).nan
    /\ IsFalsy(block.end_line) \/ ~ParseInt(block.end_line.s).nan
    /\ ~InvertedRange

\* the parameters of the request are those the tool asks for
PassesValidation ==
    CASE tool = "write" ->
             /\ block.items.t = "array"
             /\ block.items.a # <<>>
             /\ \A i \in 1..Len(block.items.a) : WellFormed(block.items.a[i])
      [] tool = "read" -> HasUsablePath /\ RangeIsValid
      [] tool \in {"delete", "create", "list"} -> HasUsablePath
      [] OTHER -> FALSE

\* C13: for every batch tool, when the invocation is flagged partial and its
\* parameters pass validation and the policy pre-check, the approval
\* descriptor is announced once via cline.ask with the partial flag,
\* askApproval is never called, no per-item operation is invoked, no tool
\* result is pushed, and the tool returns normally whether the announce call
\* resolves or rejects.
C13_PartialOnlyAnnounces ==
    (block.partial /\ PassesValidation /\ ~DeniedAtPreCheck) =>
        /\ pc = "announced"
        /\ Len(Calls("ask")) = 1
        /\ Calls("ask")[1].a = "partial"
        /\ Calls("ask")[1].b = approvalContent
        /\ approvalContent.paths # <<>>
        /\ Len(Calls("askApproval")) = 0
        /\ Len(Calls("pushToolResult")) = 0
        /\ Len(Calls("throw")) = 0
        /\ \A i \in 1..Len(log) : ~IsItemOperation(log[i])
        /\ results = <<>>
        /\ fs = InitialFs

C13_Witness ==
    /\ block.partial
    /\ PassesValidation
    /\ ~DeniedAtPreCheck
    /\ tool = "delete"
    /\ Len(relPaths) = 2
    /\ Calls("ask")[1].c = "rejected"
    /\ pc = "announced"
\* C14: for every batch tool, askApproval is called at most once per
\* invocation whatever the number of items, and exactly once, with the
\* descriptor of the whole batch, in every finalized invocation that passes
\* parameter validation and the policy pre-check.
C14_ApprovalAskedOnce ==
    /\ Len(Calls("askApproval")) <= 1
    /\ (tool # "none" /\ ~block.partial /\ PassesValidation /\ ~DeniedAtPreCheck) =>
           /\ Len(Calls("askApproval")) = 1
           /\ Calls("askApproval")[1].b = approvalContent
           /\ Len(approvalContent.paths) = Len(FilteredPaths)

C14_Witness ==
    /\ tool = "list"
    /\ pc = "done"
    /\ Len(relPaths) = 2
    /\ Len(FsCalls("listFiles")) = 2
    /\ Len(Calls("askApproval")) = 1
\* the invocation ended before any approval was requested, on a parameter
\* error or on a denial of the policy
RejectedBeforeApproval ==
    /\ tool # "none"
    /\ ~block.partial
    /\ ~PassesValidation \/ DeniedAtPreCheck
    /\ ApprovalIndex = 0
    /\ pc \in Terminal \ {"threw"}

\* the batch was approved and its loop and report have run
ApprovedAndExecuted == didApprove = "yes" /\ pc \in Terminal

SummariesSaid == SelectSeq(log, LAMBDA e : e.ev = "say" /\ e.a = "text")

\* C15: for every batch tool, pushToolResult is called at most once per
\* invocation, and exactly once, as the last call, in every finalized
\* invocation that is rejected at validation, rejected by policy, or approved
\* and executed; an approved invocation of write, delete or create says
\* exactly one plain-text summary, right before the report is pushed, and
\* read and list say none.
C15_OneReport ==
    /\ Len(Calls("pushToolResult")) <= 1
    /\ RejectedBeforeApproval =>
           /\ Len(Calls("pushToolResult")) = 1
           /\ log[Len(log)].ev = "pushToolResult"
           /\ log[Len(log)].a \in {"toolError", "missingParam"}
    /\ ApprovedAndExecuted =>
           /\ Len(Calls("pushToolResult")) = 1
           /\ log[Len(log)].ev = "pushToolResult"
           /\ log[Len(log)].a = "report"
           /\ IF tool \in {"write", "delete", "create"}
              THEN /\ Len(SummariesSaid) = 1
                   /\ log[Len(log) - 1] = SummariesSaid[1]
              ELSE Len(SummariesSaid) = 0

C15_Witness ==
    /\ tool = "delete"
    /\ ApprovedAndExecuted
    /\ Len(results) = 2
    /\ Len(SummariesSaid) = 1
    /\ SummariesSaid[1].b.arg.failed = <<1>>
    /\ log[Len(log)].ev = "pushToolResult"
\* an awaited collaborator of the tool rejected
CollaboratorRejected ==
    \/ didApprove = "rejected"
    \/ \E i \in 1..Len(log) :
           log[i].ev \in {"say", "ask", "handleError"} /\ log[i].c = "rejected"

\* C16: no batch tool throws past its own boundary: whatever its
\* collaborators do (a filesystem operation failing, the approval gate, say,
\* ask or handleError rejecting), the invocation completes normally, and an
\* approved invocation ends with its report pushed.
C16_NothingThrownPastBoundary ==
    CollaboratorRejected =>
        /\ pc # "threw"
        /\ \A i \in 1..Len(log) : log[i].ev # "throw"
\* the error with which an underlying call of the loop ended, NoError when it
\* succeeded or when its failure is absorbed (countFileLines, isBinaryFile)
ErrorOf(e) ==
    IF e.ev # "fs" THEN NoError
    ELSE CASE e.a \in {"delete", "createDirectory", "readLines", "extractTextFromFile"} -> e.c
           [] e.a \in {"listFiles", "writeFile"} -> e.c.error
           [] e.a = "parseSourceCodeDefinitionsForFile" ->
                  IF e.c = "fail" THEN BareError ELSE NoError
           [] OTHER -> NoError

\* the call at position i failed with something other than not-found, and is
\* the last failing call of its item
IsItemFailure(i) ==
    /\ ErrorOf(log[i]).code \notin {"none", "FileNotFound"}
    /\ i < Len(log) => ErrorOf(log[i + 1]).code \in {"none", "FileNotFound"}

\* C17: for every batch tool, each per-item execution failure that is not a
\* not-found condition is recorded in that item's result and forwarded to
\* handleError exactly once, right after the failing call.
C17_FailureRecordedAndForwarded ==
    /\ \A i \in 1..Len(log) :
           IsItemFailure(i) =>
               /\ i < Len(log)
               /\ log[i + 1].ev = "handleError"
               /\ log[i + 1].b = ErrorOf(log[i])
               /\ i + 2 <= Len(log) => log[i + 2].ev # "handleError"
    /\ Count(results, LAMBDA r : IsTruthyMsg(r.error))
           >= Cardinality({i \in 1..Len(log) : IsItemFailure(i)})
\* the tools whose validation is followed by a policy check of every path
RunsPreCheck == tool \in {"read", "write", "delete", "list"}

\* C18: in every tool that runs the policy pre-check, each item is checked
\* again at execution time: a path that the policy allowed at the pre-check
\* and denies once the batch is approved is not operated on, its item is
\* recorded as an error, and every item of the batch has its result.
C18_RevalidatedAtExecution ==
    (RunsPreCheck /\ pc = "done") =>
        /\ Len(results) = Len(FilteredPaths)
        /\ \A k \in 1..Len(FilteredPaths) :
               ~AccessAllowed(FilteredPaths[k]) =>
                   /\ IsTruthyMsg(results[k].error)
                   /\ \A i \in 1..Len(AfterApproval) :
                          IsItemOperation(AfterApproval[i]) =>
                              ~IsAbout(AfterApproval[i], FilteredPaths[k])
C20_FailOpenWithoutController ==
    ~rooIgnore.present =>
        /\ \A i \in 1..Len(log) :
               /\ ~IsDenial(log[i])
               /\ log[i].ev = "say" => log[i].a # "rooignore_error"
               /\ (log[i].ev = "pushToolResult" /\ log[i].a = "toolError") =>
                      log[i].b.msg.text # "rooIgnoreError"
        /\ \A k \in 1..Len(results) : results[k].error.text # "rooIgnoreError"
        /\ (tool # "none" /\ ~block.partial /\ PassesValidation) => ApprovalIndex # 0
        /\ (pc = "done" /\ tool \in {"read", "list"}) =>
               LET attempts == SelectSeq(AfterApproval, IsAttempt)
               IN /\ Len(attempts) = Len(relPaths)
                  /\ \A k \in 1..Len(attempts) : IsAbout(attempts[k], relPaths[k])

C20_Witness ==
    /\ ~rooIgnore.present
    /\ tool = "read"
    /\ pc = "done"
    /\ Len(relPaths) = 2
    /\ Len(Calls("validateAccess")) = 4
    /\ Len(FsCalls("countFileLines")) = 2
\* the entries of the paths parameter that are non-blank strings, in input order
RemainingEntries ==
    Map(SelectSeq(block.paths.a, LAMBDA p : p.t = "string" /\ Trim(p.s) # <<>>),
        LAMBDA p : p.s)

\* the access queries made before the approval request or the announcement
PreCheckQueries ==
    SelectSeq(SubSeq(log, 1, IF ApprovalIndex = 0 THEN Len(log) ELSE ApprovalIndex),
              LAMBDA e : e.ev = "validateAccess")

\* C21: for the path-based tools (read, delete, create, list), empty,
\* whitespace-only and non-string entries are removed silently before any
\* policy or approval step: when an entry remains no parameter error is said,
\* the policy is consulted only for the remaining entries, the approval
\* descriptor lists exactly the remaining entries in input order, and only
\* they are processed and reported.
C21_BlankEntriesFilteredSilently ==
    (tool \in {"read", "delete", "create", "list"} /\ block.paths.t = "array"
        /\ RemainingEntries # <<>>) =>
        /\ \A i \in 1..Len(log) :
               /\ log[i].ev = "say" => log[i].a # "error"
               /\ log[i].ev # "sayAndCreateMissingParamError"
               /\ log[i].ev = "validateAccess" =>
                      \E k \in 1..Len(RemainingEntries) : log[i].b = RemainingEntries[k]
        /\ tool # "create" => Map(PreCheckQueries, LAMBDA e : e.b) = RemainingEntries
        /\ \A i \in 1..Len(log) :
               log[i].ev \in {"ask", "askApproval"} =>
                   log[i].b.paths = Map(RemainingEntries,
                                        LAMBDA p : [path |-> GetReadablePath(p),
                                                    status |-> "none"])
        /\ Len(results) <= Len(RemainingEntries)
        /\ \A k \in 1..Len(results) : results[k].path = RemainingEntries[k]
        /\ pc = "done" =>
               /\ Len(results) = Len(RemainingEntries)
               /\ Map(log[Len(log)].b.children, LAMBDA c : c.path) = RemainingEntries

C21_Witness ==
    /\ tool = "delete"
    /\ block.paths = ArrayOf(<<Str(Blank), Str(PathA)>>)
    /\ pc = "done"
    /\ Len(Calls("validateAccess")) = 1
    /\ Len(approvalContent.paths) = 1
    /\ Len(results) = 1
\* C22: in readFilesTool a failure of line counting or of binary detection
\* for a file neither aborts the batch nor makes the item an error by itself:
\* an unknown line count means no truncation (total 0, no outline), a failed
\* detection means not binary, the file is then read by the path its range,
\* count and maximum select, and the item is an error iff that read failed.
C22_CountAndDetectionFailuresAbsorbed ==
    (tool = "read" /\ pc \in {"executing", "done"}) =>
        /\ pc = "done" => Len(results) = Len(relPaths)
        /\ \A k \in 1..Len(results) :
               LET abs == Resolve(relPaths[k])
                   counted == CallsOn("countFileLines", abs)
                   detected == CallsOn("isBinaryFile", abs)
                   whole == CallsOn("extractTextFromFile", abs)
                   lines == CallsOn("readLines", abs)
                   outline == CallsOn("parseSourceCodeDefinitionsForFile", abs)
                   r == results[k]
                   readFailed ==
                       \/ \E i \in 1..Len(whole) : IsError(whole[i].c)
                       \/ \E i \in 1..Len(lines) : IsError(lines[i].c)
                       \/ \E i \in 1..Len(outline) : outline[i].c = "fail"
               IN (/\ Len(counted) = 1
                   /\ counted[1].c = CountFailed \/ detected[1].c = "fail") =>
                      /\ Len(detected) = 1
                      /\ IsTruthyMsg(r.error) <=> readFailed
                      /\ counted[1].c = CountFailed =>
                             /\ r.totalLines = 0
                             /\ ~r.isTruncated
                             /\ Len(outline) = 0
                             /\ Len(whole) + Len(lines) = 1
                             /\ Len(lines) = 1 <=> range.isRangeRead
                      /\ (detected[1].c = "fail" /\ counted[1].c # CountFailed
                            /\ ~range.isRangeRead) =>
                             IF maxReadFileLine >= 0 /\ counted[1].c > maxReadFileLine
                             THEN Len(outline) = 1 /\ Len(whole) = 0
                             ELSE Len(outline) = 0 /\ Len(whole) = 1

C22_Witness ==
    /\ tool = "read"
    /\ pc = "done"
    /\ Len(results) = 2
    /\ Len(CallsOn("countFileLines", Resolve(relPaths[1]))) = 1
    /\ CallsOn("countFileLines", Resolve(relPaths[1]))[1].c = CountFailed
    /\ CallsOn("isBinaryFile", Resolve(relPaths[1]))[1].c = "fail"
    /\ results[1].error = NoMsg
    /\ results[1].content = Msg("extracted", Resolve(relPaths[1]))
    /\ IsTruthyMsg(results[2].error)
\* C23 as stated: a file detected as binary is read whole via the generic
\* extraction path, whatever its line count and the configured maximum, and
\* is never truncated or outlined.
C23_BinaryReadWhole ==
    (tool = "read" /\ pc \in {"executing", "done"}) =>
        \A k \in 1..Len(results) :
            LET abs == Resolve(relPaths[k])
                detected == CallsOn("isBinaryFile", abs)
            IN (Len(detected) = 1 /\ detected[1].c = "yes") =>
                   /\ Len(CallsOn("extractTextFromFile", abs)) = 1
                   /\ Len(CallsOn("readLines", abs)) = 0
                   /\ Len(CallsOn("parseSourceCodeDefinitionsForFile", abs)) = 0
                   /\ ~results[k].isTruncated

\* C23 (amended): a file detected as binary is never subject to the
\* truncation/outline logic, whatever its line count and the configured
\* maximum: it is not outlined, not marked truncated and its reported content
\* has no trailer; with no explicit line range it is read whole via the
\* generic extraction path, and with an explicit range it is read by
\* readLines with that range like any other file.
C23_BinaryNeverTruncated ==
    (tool = "read" /\ pc \in {"executing", "done"}) =>
        \A k \in 1..Len(results) :
            LET abs == Resolve(relPaths[k])
                detected == CallsOn("isBinaryFile", abs)
                whole == CallsOn("extractTextFromFile", abs)
                lines == CallsOn("readLines", abs)
            IN (Len(detected) = 1 /\ detected[1].c = "yes") =>
                   /\ Len(CallsOn("parseSourceCodeDefinitionsForFile", abs)) = 0
                   /\ ~results[k].isTruncated
                   /\ pc = "done" =>
                          \/ IsTruthyMsg(results[k].error)
                          \/ ReportedContent(k)[1].trailer = <<>>
                   /\ IF range.isRangeRead
                      THEN /\ Len(whole) = 0
                           /\ Len(lines) = 1
                           /\ lines[1].b = <<abs, range.endLine, range.startLine>>
                      ELSE Len(whole) = 1 /\ Len(lines) = 0

C23_Witness ==
    /\ tool = "read"
    /\ pc = "done"
    /\ ~range.isRangeRead
    /\ maxReadFileLine = 2
    /\ Len(results) = 1
    /\ CallsOn("isBinaryFile", Resolve(relPaths[1]))[1].c = "yes"
    /\ CallsOn("countFileLines", Resolve(relPaths[1]))[1].c = 600
    /\ results[1].content = Msg("extracted", Resolve(relPaths[1]))
    /\ ReportedContent(1)[1].trailer = <<>>
\* C24: in the write, delete and create tools, the success count of the
\* summary equals the number of item results with status success, its failure
\* count the number with status error, the two sum to the number of processed
\* items, and the failure clause is in the summary iff the failure count is
\* greater than zero.
C24_SummaryCountsResults ==
    (tool \in {"write", "delete", "create"} /\ pc = "done") =>
        LET said == SummariesSaid[1].b.arg
            succeeded == Count(results, LAMBDA r : r.status = "success")
            failed == Count(results, LAMBDA r : r.status = "error")
        IN /\ Len(SummariesSaid) = 1
           /\ said.ok = succeeded
           /\ said.failed = IF failed > 0 THEN <<failed>> ELSE <<>>
           /\ succeeded + failed = Len(results)
           /\ Len(results) = Len(FilteredPaths)

C24_Witness ==
    /\ tool = "write"
    /\ pc = "done"
    /\ Len(results) = 2
    /\ results[1].status = "error"
    /\ results[2].status = "success"
    /\ SummariesSaid[1].b.arg = [ok |-> 1, failed |-> <<1>>]
\* the number of the item to which the call at position i of the log
\* belongs, for read and list: each item starts with its access re-check
ItemOfCall(i) ==
    Len(SelectSeq(SubSeq(log, ApprovalIndex + 1, i), LAMBDA e : e.ev = "validateAccess"))

\* C25: in every report of the write, delete and create tools each item
\* element carries its path and a status in {success, error}, and an
\* error-message element iff its status is error; in every report of the read
\* and list tools each item element carries its path and exactly one of
\* content or error, and a file that reads as empty yields an empty content
\* element, not an error.
C25_ReportItemShape ==
    pc = "done" =>
        LET children == log[Len(log)].b.children
        IN /\ log[Len(log)].ev = "pushToolResult"
           /\ Len(children) = Len(FilteredPaths)
           /\ \A k \in 1..Len(children) : children[k].path = FilteredPaths[k]
           /\ tool \in {"write", "delete", "create"} =>
                  \A k \in 1..Len(children) :
                      /\ children[k].status \in {"success", "error"}
                      /\ Len(children[k].error) = 1 <=> children[k].status = "error"
                      /\ Len(children[k].error) = 0 <=> children[k].status = "success"
                      /\ \A m \in 1..Len(children[k].error) : IsTruthyMsg(children[k].error[m])
           /\ tool \in {"read", "list"} =>
                  \A k \in 1..Len(children) :
                      Len(children[k].content) + Len(children[k].error) = 1
           /\ tool = "read" =>
                  \A i \in 1..Len(log) :
                      (/\ log[i].ev = "fs"
                       /\ log[i].a = "extractTextFromFile"
                       /\ log[i].c = EmptyText) =>
                          /\ children[ItemOfCall(i)].error = <<>>
                          /\ children[ItemOfCall(i)].content =
                                 <<[text |-> Msg("", <<>>), trailer |-> <<>>]>>

C25_Witness ==
    /\ tool = "read"
    /\ pc = "done"
    /\ Len(results) = 2
    /\ \E i \in 1..Len(log) :
           /\ log[i].ev = "fs"
           /\ log[i].a = "extractTextFromFile"
           /\ log[i].c = EmptyText
           /\ ItemOfCall(i) = 2
    /\ Len(log[Len(log)].b.children[1].error) = 1
    /\ Len(log[Len(log)].b.children[2].content) = 1


\* the texts of an array that are neither empty nor whitespace-only, in order
RECURSIVE NonBlank(_)
NonBlank(parts) ==
    IF parts = <<>> THEN <<>>
    ELSE IF TrimWs(Head(parts)) = <<>> THEN NonBlank(Tail(parts))
    ELSE <<Head(parts)>> \o NonBlank(Tail(parts))

AddCustomInstructionsReturned ==
    promptResult.fn = "addCustomInstructions" /\ ~promptResult.threw

\* the full section assembled from the returned components as stated: language preference,
\* global, mode-specific, then the rules (mode-specific, rooignore, generic), blank ones left out
ExpectedFullSection(v) ==
    LET rules == NonBlank(<<v.rulesModeSpecific, v.rulesRooIgnore, v.rulesGeneric>>)
        rulesAll == IF rules = <<>> THEN <<>>
                    ELSE <<"Rules:", "\n", "\n">> \o Join(rules, <<"\n", "\n">>)
        sections == NonBlank(<<v.languagePreference, v.globalInstructions,
                               v.modeSpecificInstructions, rulesAll>>)
    IN  IF sections = <<>> THEN <<>>
        ELSE CustomInstructionsHeader \o Join(sections, <<"\n", "\n">>)

\* C27: addCustomInstructions assembles fullSection from its components in the order language
\* preference, global instructions, mode-specific instructions, rules (mode-specific rules,
\* rooignore rules, generic rules); empty and whitespace-only components are left out, and
\* fullSection is empty exactly when every component is empty.
C27_FullSectionFromNonBlankComponents ==
    AddCustomInstructionsReturned =>
        LET v == promptResult.value
        IN  /\ v.fullSection = ExpectedFullSection(v)
            /\ v.fullSection = <<>> <=>
                    /\ v.languagePreference = <<>>
                    /\ v.globalInstructions = <<>>
                    /\ v.modeSpecificInstructions = <<>>
                    /\ v.rulesModeSpecific = <<>>
                    /\ v.rulesRooIgnore = <<>>
                    /\ v.rulesGeneric = <<>>


SystemPromptReturned == promptResult.fn = "SYSTEM_PROMPT" /\ ~promptResult.threw

\* the template with each known placeholder replaced by the value of its section, and
\* everything else, unknown placeholders included, kept as written
RECURSIVE TemplateWithSections(_, _)
TemplateWithSections(template, substitutions) ==
    IF template = <<>> THEN <<>>
    ELSE LET known == {i \in 1..Len(substitutions) : substitutions[i][1] = Head(template)}
         IN  (IF known = {} THEN <<Head(template)>>
              ELSE substitutions[CHOOSE i \in known : TRUE][2])
             \o TemplateWithSections(Tail(template), substitutions)

\* C26: SYSTEM_PROMPT generates the default prompt exactly when no file-based custom system
\* prompt is found; when one is found the result is that template with every occurrence of
\* each known placeholder replaced by its section value, unknown placeholders left verbatim
\* and no default section included whose placeholder is not in the template.
C26_TemplateSubstitutedExactly ==
    SystemPromptReturned =>
        LET c == promptCall
            sections == Substitutions(RoleDefinition(c), McpServersSection(c),
                                      AddCustomInstructions(CustomInstructionsCall(c)))
        IN  IF IsFalsy(c.fileCustomSystemPrompt)
            THEN promptResult.value = GeneratePrompt(c)
            ELSE /\ promptResult.value = TemplateWithSections(c.fileCustomSystemPrompt.s, sections)
                 /\ promptResult.value # GeneratePrompt(c)


\* position of the call that informs the gate, announcement or approval request, 0 when
\* there is none
RequestIndex ==
    IF \E i \in 1..Len(log) : log[i].ev \in {"ask", "askApproval"}
    THEN CHOOSE i \in 1..Len(log) : log[i].ev \in {"ask", "askApproval"}
    ELSE 0

\* the call reports a parameter error
IsParameterError(e) ==
    \/ e.ev = "sayAndCreateMissingParamError"
    \/ e.ev = "say" /\ e.a = "error"
    \/ e.ev = "pushToolResult" /\ e.a = "missingParam"
    \/ e.ev = "pushToolResult" /\ e.a = "toolError" /\ e.b.msg.text # "rooIgnoreError"

IsReport(e) == e.ev = "pushToolResult" /\ e.a = "report"

\* the calls made so far respect the order validation, policy pre-check, approval,
\* execution, report
PhasesInOrder ==
    /\ \A i, j \in 1..Len(log) :
           (i < j /\ log[i].ev = "validateAccess") => ~IsParameterError(log[j])
    /\ (RequestIndex # 0 /\ RunsPreCheck) =>
           LET before == SelectSeq(SubSeq(log, 1, RequestIndex - 1),
                                   LAMBDA e : e.ev = "validateAccess")
           IN  /\ Len(before) = Len(FilteredPaths)
               /\ \A k \in 1..Len(before) : before[k].b = FilteredPaths[k] /\ before[k].c
    /\ \A i \in 1..Len(log) :
           IsItemOperation(log[i]) =>
               /\ didApprove = "yes"
               /\ ApprovalIndex # 0
               /\ ApprovalIndex < i
    /\ \A i \in 1..Len(log) :
           IsReport(log[i]) =>
               /\ i = Len(log)
               /\ didApprove = "yes"
               /\ Len(results) = Len(FilteredPaths)
               /\ Len(log[i].b.children) = Len(FilteredPaths)

\* how an invocation ended, read from its calls
EndedInReject ==
    /\ RequestIndex = 0
    /\ log # <<>>
    /\ log[Len(log)].ev = "pushToolResult"
    /\ log[Len(log)].a \in {"toolError", "missingParam"}
EndedInAbandon == didApprove = "no" /\ log # <<>> /\ log[Len(log)].ev = "askApproval"
EndedInDone == log # <<>> /\ IsReport(log[Len(log)])
EndedInAnnounce == log # <<>> /\ log[Len(log)].ev = "ask"
EndedInThrow == log # <<>> /\ log[Len(log)].ev = "throw"

\* C28 as stated: the phases come in the order validation, policy pre-check, approval,
\* execution, report, and an invocation ends in reject, abandon or done only.
C28_OnlyRejectAbandonDone ==
    /\ PhasesInOrder
    /\ pc \in Terminal => EndedInReject \/ EndedInAbandon \/ EndedInDone

\* C28: no policy query precedes the end of parameter validation, no approval request or
\* announcement precedes the policy pre-check, no per-item operation precedes an approving
\* decision, the report is pushed last and after every item has its result, and an invocation
\* ends in reject, announce (a partial call, once the gate is informed), abandon or done,
\* or by an exception that escapes the tool.
C28_PhasesInOrder ==
    /\ PhasesInOrder
    /\ pc \in Terminal =>
           \/ EndedInReject
           \/ EndedInAnnounce
           \/ EndedInAbandon
           \/ EndedInDone
           \/ EndedInThrow
    /\ pc \notin Terminal => (pc = "idle" /\ log = <<>>) \/ didApprove \in {"pending", "yes"}

\* a partial delete call of two paths ended once the pre-check ran and the gate was informed
C28_Witness ==
    /\ tool = "delete"
    /\ pc = "announced"
    /\ Len(relPaths) = 2
    /\ Len(Calls("validateAccess")) = 2
    /\ EndedInAnnounce
    /\ ~(EndedInReject \/ EndedInAbandon \/ EndedInDone)


\* the calls by which the loop started its items, in the order they were made
ItemStarts == SelectSeq(AfterApproval, LAMBDA e : IsAttempt(e) \/ IsDenial(e))

\* C29: the items of a batch are processed strictly one after the other: the call that
\* starts item k+1 is made when items 1..k have their results and their error reports, the
\* calls come in the order of the items, and an item observes the filesystem effects of the
\* items before it (a path deleted by an earlier item is found absent by a later one).
C29_ItemsProcessedInSequence ==
    (didApprove = "yes" /\ pc \in {"executing", "done"}) =>
        /\ Len(ItemStarts) = Len(results)
        /\ pc = "executing" => idx = Len(results) + 1
        /\ \A k \in 1..Len(ItemStarts) : IsAbout(ItemStarts[k], FilteredPaths[k])
        /\ \A k \in 1..Len(results) : results[k].path = FilteredPaths[k]
        /\ \A i \in 1..Len(log) :
               log[i].ev = "handleError" =>
                   \/ log[i - 1].ev = "fs" /\ log[i - 1].c # NoError
                   \/ IsDenial(log[i - 1])
        /\ \A i, j \in 1..Len(log) :
               (/\ i < j
                /\ log[i].ev = "fs" /\ log[i].a = "delete" /\ log[i].c = NoError
                /\ log[j].ev = "fs" /\ log[j].a = "delete"
                /\ IsUnder(log[j].b, log[i].b)) => log[j].c = FileNotFound

\* the same path twice in one delete batch: deleted by the first item, absent for the second
C29_Witness ==
    /\ tool = "delete"
    /\ pc = "done"
    /\ Len(results) = 2
    /\ relPaths[1] = relPaths[2]
    /\ results[1].status = "success"
    /\ results[2].error = Msg("File or directory not found.", <<>>)


\* the operations a loop performs on an item
ItemOperations ==
    {"delete", "createDirectory", "writeFile", "listFiles", "countFileLines", "isBinaryFile",
     "readLines", "extractTextFromFile", "parseSourceCodeDefinitionsForFile"}

\* no operation was invoked more often than items were started, and reading a file took
\* one reading call at most
AtMostOncePerItem ==
    /\ Len(results) <= Len(ItemStarts)
    /\ Len(ItemStarts) <= Len(FilteredPaths)
    /\ \A op \in ItemOperations : Len(FsCalls(op)) <= Len(ItemStarts)
    /\ Len(FsCalls("readLines")) + Len(FsCalls("extractTextFromFile")) <= Len(ItemStarts)

\* a recorded outcome stays as it was recorded
OutcomesKept ==
    /\ Len(results') >= Len(results)
    /\ \A k \in 1..Len(results) : results'[k] = results[k]

\* C30: there are no retries: within one invocation the underlying operation is invoked at
\* most once per filtered item (for write at most one createDirectory and one writeFile),
\* and the recorded outcome of an item, failed or not, is never changed afterwards.
C30_NoRetries == [](AtMostOncePerItem) /\ [][OutcomesKept]_vars

\* a delete batch of two items whose first deletion failed: two delete calls, the failure kept
C30_Witness ==
    /\ tool = "delete"
    /\ pc = "done"
    /\ Len(results) = 2
    /\ results[1].status = "error"
    /\ results[1].error = Msg("Permission denied", <<>>)
    /\ Len(FsCalls("delete")) = 2


\* the steps a running invocation takes once the call it awaits has returned: the approval
\* decision, an item of the loop, the report
Proceeds ==
    \/ \E answer \in BOOLEAN : DeleteItemsDecide(answer)
    \/ \E error \in {NoError, FileNotFound, NoPermissions, BareError} : DeleteItemsItem(error)
    \/ DeleteItemsReport
    \/ \E answer \in BOOLEAN : CreateDirectoriesDecide(answer)
    \/ \E error \in CreateDirectoryOutcomes : CreateDirectoriesItem(error)
    \/ CreateDirectoriesReport
    \/ \E answer \in BOOLEAN : ReadFilesDecide(answer)
    \/ \E o \in PlainOutcomes : ReadFilesItem(o)
    \/ ReadFilesReport
    \/ \E answer \in BOOLEAN : WriteFilesDecide(answer)
    \/ \E mk \in CreateDirectoryOutcomes, wr \in WriteFileOutcomes : WriteFilesItem(mk, wr)
    \/ WriteFilesReport
    \/ \E answer \in BOOLEAN : ListDirectoriesDecide(answer)
    \/ \E outcome \in ListFilesOutcomes : ListDirectoriesItem(outcome)
    \/ ListDirectoriesReport

\* the five tools with collaborators whose calls eventually return
SpecLive == Init /\ [][Next]_vars /\ WF_vars(Proceeds)

\* the loop and the report have run over every filtered item
RanToCompletion ==
    /\ pc = "done"
    /\ Len(results) = Len(FilteredPaths)
    /\ log # <<>>
    /\ IsReport(log[Len(log)])
    /\ Len(log[Len(log)].b.children) = Len(FilteredPaths)

\* C31: when every collaborator call eventually returns, every invocation eventually reaches
\* a terminal state, and an invocation whose execution has begun runs to completion: every
\* item is processed and the report is pushed.
C31_RunsToCompletion ==
    /\ (tool # "none") ~> (pc \in Terminal)
    /\ (pc = "executing") ~> RanToCompletion

\* an approved batch of two directories, the first of which failed, was reported in full
C31_Witness ==
    /\ tool = "create"
    /\ RanToCompletion
    /\ Len(results) = 2
    /\ results[1].status = "error"
    /\ results[2].status = "success"


\* C32: in writeFilesTool, for each item whose parent directory differs from the working
\* directory, createDirectory for the parent is called and has succeeded right before
\* writeFile for that item; when the creation fails writeFile is not called for the item, the
\* item is recorded as an error, and the next item is still processed.
C32_DirectoryBeforeWrite ==
    tool = "write" =>
        /\ \A j \in 1..Len(log) :
               (/\ log[j].ev = "fs"
                /\ log[j].a = "writeFile"
                /\ Dirname(log[j].b) # Cwd) =>
                   /\ j > 1
                   /\ log[j - 1] = FsCall("createDirectory", Dirname(log[j].b), NoError)
        /\ \A i \in 1..Len(log) :
               (log[i].ev = "fs" /\ log[i].a = "createDirectory" /\ log[i].c # NoError) =>
                   /\ i < Len(log)
                   /\ log[i + 1].ev = "handleError"
        /\ (didApprove = "yes" /\ pc \in {"executing", "done"}) =>
               /\ Len(ItemStarts) = Len(results)
               /\ \A k \in 1..Len(ItemStarts) :
                      ItemStarts[k].a = "createDirectory" =>
                          /\ results[k].status = "error"
                          /\ IsTruthyMsg(results[k].error)
        /\ pc = "done" => Len(results) = Len(itemsToProcess)

\* the parent of the first file could not be created; the second file got its directory and
\* was written
C32_Witness ==
    /\ tool = "write"
    /\ pc = "done"
    /\ Len(results) = 2
    /\ results[1].status = "error"
    /\ results[2].status = "success"
    /\ Len(FsCalls("createDirectory")) = 2
    /\ Len(FsCalls("writeFile")) = 1
    /\ FsCalls("createDirectory")[1].c # NoError


\* the invocation was rejected with a parameter error, or by the policy pre-check
RejectedAtValidation == pc = "rejected" /\ IsParameterError(log[Len(log)])
RejectedByPolicy == pc = "rejected" /\ ~IsParameterError(log[Len(log)])

\* C33: consecutiveMistakeCount is incremented by exactly one by every invocation rejected
\* at parameter validation (missing parameter, no valid entries, malformed write items,
\* invalid or inverted line range), is zero after every invocation that is approved and
\* completes, and is left unchanged by an invocation rejected by the policy pre-check.
C33_MistakeCount ==
    /\ RejectedAtValidation => consecutiveMistakeCount = entry.consecutiveMistakeCount + 1
    /\ (didApprove = "yes" /\ pc = "done") => consecutiveMistakeCount = 0
    /\ RejectedByPolicy =>
           /\ DeniedAtPreCheck
           /\ consecutiveMistakeCount = entry.consecutiveMistakeCount
    /\ (pc = "rejected" /\ DeniedAtPreCheck) => RejectedByPolicy

\* a write request without a well-formed item was rejected and counted as one more mistake
C33_Witness ==
    /\ tool = "write"
    /\ RejectedAtValidation
    /\ block.items.t = "array"
    /\ block.items.a # <<>>
    /\ entry.consecutiveMistakeCount > 0
    /\ consecutiveMistakeCount = entry.consecutiveMistakeCount + 1


\* the existence probes made before the approval request, one per item
ExistenceProbes == FsCalls("fileExistsAtPath")

\* C34: in writeFilesTool the approval descriptor has one entry per item to process, in input
\* order, whose status is "overwrite" iff the target existed at the pre-approval existence
\* check and "create" otherwise; the counts of new and of existing files in the rationale add
\* up to the number of items, and the overwrite clause appears iff some target exists.
C34_WriteDescriptor ==
    (tool = "write" /\ RequestIndex # 0) =>
        LET content == log[RequestIndex].b
            existing == {k \in 1..Len(ExistenceProbes) : ExistenceProbes[k].c}
            overwritten == IF content.reason.arg.overwrite = <<>> THEN 0
                           ELSE content.reason.arg.overwrite[1]
        IN  /\ content.tool = "writeFiles"
            /\ Len(content.paths) = Len(itemsToProcess)
            /\ Len(ExistenceProbes) = Len(itemsToProcess)
            /\ \A k \in 1..Len(itemsToProcess) :
                   /\ ExistenceProbes[k].b = Resolve(itemsToProcess[k].path)
                   /\ ExistenceProbes[k].c <=> Resolve(itemsToProcess[k].path) \in InitialFs
                   /\ content.paths[k].path = GetReadablePath(itemsToProcess[k].path)
                   /\ content.paths[k].status = "overwrite" <=> ExistenceProbes[k].c
                   /\ content.paths[k].status = "create" <=> ~ExistenceProbes[k].c
            /\ content.reason.arg.new + overwritten = Len(itemsToProcess)
            /\ overwritten = Cardinality(existing)
            /\ content.reason.arg.overwrite # <<>> <=> existing # {}

\* a request for an existing and a new file: one overwrite and one create, in that order
C34_Witness ==
    /\ tool = "write"
    /\ RequestIndex # 0
    /\ Len(itemsToProcess) = 2
    /\ log[RequestIndex].b.paths[1].status = "overwrite"
    /\ log[RequestIndex].b.paths[2].status = "create"
    /\ log[RequestIndex].b.reason.arg = [new |-> 1, overwrite |-> <<1>>]


\* the 0-based index of a line bound of the request: absent when the parameter is
IndexOf(param) ==
    IF IsFalsy(param) THEN Undef
    ELSE LET bound == ParseInt(param.s).n
         IN  Defined(IF bound - 1 < 0 THEN 0 ELSE bound - 1)

\* the readLines calls of a range read use, for every file, the indices computed from the
\* request
SameIndicesForEveryFile ==
    /\ range.isRangeRead
    /\ range.startLine = IndexOf(block.start_line)
    /\ range.endLine = IndexOf(block.end_line)
    /\ \A i \in 1..Len(log) :
           (log[i].ev = "fs" /\ log[i].a = "readLines") =>
               /\ log[i].b[2] = IndexOf(block.end_line)
               /\ log[i].b[3] = IndexOf(block.start_line)
    /\ \A i \in 1..Len(log) :
           (log[i].ev = "fs" /\ log[i].a \in {"extractTextFromFile",
                                               "parseSourceCodeDefinitionsForFile"}) => FALSE

\* the number given to the first line of each content returned by a range read
NumberedFrom(n) ==
    \A i \in 1..Len(log) :
        (/\ log[i].ev = "fs" /\ log[i].a = "readLines" /\ ~IsError(log[i].c)
         /\ ItemOfCall(i) <= Len(results)) =>
            results[ItemOfCall(i)].content = AddLineNumbers(log[i].c.message, n)

RangeReadExecuting ==
    /\ tool = "read"
    /\ didApprove = "yes"
    /\ ~IsFalsy(block.start_line) \/ ~IsFalsy(block.end_line)

\* C35 as stated: the bounds are converted to 0-based indices (bound - 1, never below 0)
\* once for the batch, every file is read with readLines(endIndex, startIndex), and the
\* numbering of the returned lines starts at start_line (at 1 when only end_line is given).
C35_NumberedFromStartLine ==
    RangeReadExecuting =>
        /\ SameIndicesForEveryFile
        /\ NumberedFrom(IF IsFalsy(block.start_line) THEN 1
                        ELSE ParseInt(block.start_line.s).n)

\* C35: the bounds are converted to 0-based indices (bound - 1, never below 0) once for the
\* batch, every file is read with readLines(endIndex, startIndex), and the numbering of the
\* returned lines starts at the start index plus one: at start_line when it is 1 or more, at 1
\* when start_line is 0 or less or when only end_line is given.
C35_NumberedFromStartIndex ==
    RangeReadExecuting =>
        /\ SameIndicesForEveryFile
        /\ NumberedFrom(IF IsFalsy(block.start_line) THEN 1
                        ELSE IndexOf(block.start_line).n + 1)

\* a range read from line 2 on: the lines read at index 1 are numbered from 2
C35_Witness ==
    /\ tool = "read"
    /\ pc = "done"
    /\ block.start_line = Str(<<"2">>)
    /\ IsFalsy(block.end_line)
    /\ Len(FsCalls("readLines")) = 1
    /\ FsCalls("readLines")[1].b[3] = Defined(1)
    /\ results[1].content = AddLineNumbers("text", 2)


\* the step is an iteration of the writing loop that calls writeFile
WritesFile ==
    /\ tool = "write"
    /\ pc = "executing"
    /\ idx' = idx + 1
    /\ Len(SelectSeq(log', LAMBDA e : e.ev = "fs" /\ e.a = "writeFile"))
           > Len(FsCalls("writeFile"))

\* C36: writeFilesTool never overwrites a file that the approved descriptor announced as
\* "create": whenever it calls writeFile on a path where a file exists at the time of the
\* write, the approval payload marked that entry "overwrite".
C36_NoOverwriteAnnouncedAsCreate ==
    [][(WritesFile /\ Resolve(itemsToProcess[idx].path) \in fs) =>
           approvalContent.paths[idx].status = "overwrite"]_vars


\* the mutations of the write, delete and create tools that succeeded so far
SucceededMutations ==
    SelectSeq(log, LAMBDA e : /\ e.ev = "fs"
                              /\ \/ e.a \in {"delete", "createDirectory"} /\ e.c = NoError
                                 \/ e.a = "writeFile" /\ e.c.error = NoError)

\* an item of the batch succeeded
SomeItemSucceeded == \E k \in 1..Len(results) : results[k].status = "success"

\* didEditFile is raised only by a successful item of write, delete or create
RaisedOnlyAfterSuccess ==
    /\ didEditFile # entry.didEditFile =>
           /\ tool \in {"write", "delete", "create"}
           /\ didApprove = "yes"
           /\ SomeItemSucceeded
           /\ SucceededMutations # <<>>
    /\ (tool \in {"write", "delete", "create"} /\ SomeItemSucceeded) => didEditFile

\* C37: in the write, delete and create tools didEditFile is set to true only after at least
\* one item's mutation has succeeded, and it is true after an invocation whenever that
\* invocation changed the filesystem; it is left unchanged by validation rejection, policy
\* rejection, partial announce, denial and by batches in which every item fails, and the
\* read and list tools never modify it.
C37_DidEditFileTracksChanges ==
    /\ RaisedOnlyAfterSuccess
    /\ (pc \in Terminal /\ fs # InitialFs) => didEditFile


\* the call is an error message shown to the user
IsErrorMessage(e) ==
    \/ e.ev = "sayAndCreateMissingParamError"
    \/ e.ev = "say" /\ e.a \in {"error", "rooignore_error"}
    \/ e.ev = "handleError"

\* C38: an invocation flagged partial has no observable result whatever its parameters: for
\* all parameter values, including missing, empty or malformed ones, it never increments or
\* resets consecutiveMistakeCount, never calls pushToolResult and never emits an error
\* message.
C38_PartialHasNoResult ==
    (tool # "none" /\ block.partial) =>
        /\ consecutiveMistakeCount = entry.consecutiveMistakeCount
        /\ \A i \in 1..Len(log) : log[i].ev # "pushToolResult" /\ ~IsErrorMessage(log[i])

\* a partial invocation that passed validation and the policy pre-check
PartialAnnounced ==
    (tool # "none" /\ block.partial /\ pc = "announced") =>
        /\ consecutiveMistakeCount = entry.consecutiveMistakeCount
        /\ \A i \in 1..Len(log) : log[i].ev # "pushToolResult" /\ ~IsErrorMessage(log[i])

\* C39: an invocation whose approval is denied leaves all shared session state unchanged:
\* consecutiveMistakeCount and didEditFile have after the invocation the values they had
\* before it.
C39_DenialLeavesSessionUnchanged ==
    pc = "abandoned" =>
        /\ consecutiveMistakeCount = entry.consecutiveMistakeCount
        /\ didEditFile = entry.didEditFile

\* what a denial leaves unchanged
DenialKeepsFilesAndFlag ==
    pc = "abandoned" =>
        /\ didEditFile = entry.didEditFile
        /\ fs = InitialFs
        /\ results = <<>>
        /\ consecutiveMistakeCount = 0

=============================================================================
